---- MODULE Spec2Model ----
(***************************************************************************)
(* Model of the PostgreSQL query builder: the TableQuery builder state     *)
(* machine (conditions, base clause, joins, ordering, pagination), the     *)
(* rendering functions buildConditions / buildQuery, the Postgres          *)
(* singleton with its raw-query entry point, and the execution layer       *)
(* #get_response with its database-creation recovery.                      *)
(*                                                                         *)
(* JavaScript strings are TLA+ strings (built with \o, inspected with Len  *)
(* and SubSeq), so text-prefix checks and the regular-expression rewrite   *)
(* of distinct() act on the rendered characters.                           *)
(***************************************************************************)
EXTENDS Integers, Sequences, FiniteSets, TLC

VARIABLES
    tq,        \* builder id -> TableQuery instance fields, or NoBuilder
    chain,     \* history: builder id -> number of chained calls made on it
    hist,      \* history: builder id -> the chained condition calls made on it
    baseBy,    \* history: builder id -> the kind of call that last set the base clause
    thrown,    \* the message of the error the last chained call threw, "" if none
    pool,      \* Postgres.pool of the singleton: a pool id
    pools,     \* pool id -> [database, ending, out]; every `new Pool` appends one;
               \* out counts the clients checked out by connect() and not released
    dbExists,  \* server state: whether the target database exists
    columns,   \* server state: the names of the columns of the table in the
               \* target database, {} when there is no table
    calls      \* call id -> the state of one asynchronous call, with the history
               \* of the statements it handed to the driver

vars == <<tq, chain, hist, baseBy, thrown, pool, pools, dbExists, columns, calls>>

(***************************************************************************)
(* Bounds                                                                  *)
(***************************************************************************)
MaxChain == 4       \* calls chained on a builder, a whereGroup callback's included
MaxLimit == 2       \* limit(n) is called with n in 0..MaxLimit
MaxPage == 3        \* page(p) is called with p in 0..MaxPage
MaxBuilders == 2
MaxLiteralConditions == 2    \* builders obtained from table()
MaxCalls == 2       \* terminal and raw-query calls started, possibly overlapping

(***************************************************************************)
(* JavaScript values                                                       *)
(***************************************************************************)
Str(s) == [t |-> "string", s |-> s, n |-> 0, a |-> <<>>]
Num(n) == [t |-> "number", s |-> "", n |-> n, a |-> <<>>]
Bool(b) == [t |-> "boolean", s |-> IF b THEN "true" ELSE "false", n |-> 0, a |-> <<>>]
Arr(items) == [t |-> "array", s |-> "", n |-> 0, a |-> items]
Undefined == [t |-> "undefined", s |-> "", n |-> 0, a |-> <<>>]
Null == [t |-> "null", s |-> "", n |-> 0, a |-> <<>>]

\* String(v) for a scalar v, as a template literal `${v}` renders it.
ScalarToString(v) ==
    CASE v.t = "string" -> v.s
      [] v.t = "number" -> ToString(v.n)
      [] v.t = "boolean" -> v.s
      [] v.t = "null" -> "null"
      [] OTHER -> "undefined"

RECURSIVE Join(_, _)
\* Array.prototype.join on an array of strings.
Join(strs, sep) ==
    IF Len(strs) = 0 THEN ""
    ELSE IF Len(strs) = 1 THEN strs[1]
    ELSE strs[1] \o sep \o Join(Tail(strs), sep)

\* `${v}`: arrays render as their elements joined by a comma.
ToStr(v) ==
    IF v.t = "array"
    THEN Join([i \in 1..Len(v.a) |-> ScalarToString(v.a[i])], ",")
    ELSE ScalarToString(v)

\* String.prototype.startsWith
StartsWith(s, p) == Len(s) >= Len(p) /\ SubSeq(s, 1, Len(p)) = p

\* s.includes(p)
Includes(s, p) == \E i \in 1..(Len(s) - Len(p) + 1) : SubSeq(s, i, i + Len(p) - 1) = p

\* mutant: a quote inside a string value is doubled
FormatLiteral_Escaped(v) ==
    IF v.t = "string"
    THEN "'" \o Join([i \in 1..Len(v.s) |->
                         IF SubSeq(v.s, i, i) = "'" THEN "''" ELSE SubSeq(v.s, i, i)], "") \o "'"
    ELSE ToStr(v)

\* typeof value === 'string' ? `'${value}'` : value, inside a template literal
FormatLiteral(v) == IF v.t = "string" THEN "'" \o v.s \o "'" ELSE ToStr(v)

\* truthiness of a value in a JavaScript condition
Truthy(v) ==
    CASE v.t = "string" -> v.s # ""
      [] v.t = "number" -> v.n # 0
      [] v.t = "boolean" -> v.s = "true"
      [] v.t \in {"array", "object"} -> TRUE
      [] OTHER -> FALSE

(***************************************************************************)
(* TableQuery: construction and the condition methods                      *)
(***************************************************************************)
NoBuilder == [exists |-> FALSE]

\* new TableQuery(tableName, conection); conection 0 is null
NewTableQuery(tableName, conection) ==
    [ exists |-> TRUE,
      tableName |-> tableName,
      nextType |-> "AND",
      joins |-> <<>>,
      query |-> "SELECT * FROM \"" \o tableName \o "\"",
      conditions |-> <<>>,
      _distinct |-> FALSE,
      _orderBy |-> <<>>,
      _groupBy |-> <<>>,
      limitValue |-> Null,
      pageValue |-> Null,
      conection |-> conection ]

\* A leaf condition node and a group node (the Condition interface).
Leaf(column, operator, value, type) ==
    [column |-> column, operator |-> operator, value |-> value, query |-> "",
     type |-> type, isGroup |-> FALSE]
Group(query, type) ==
    [column |-> "", operator |-> "", value |-> Undefined, query |-> query,
     type |-> type, isGroup |-> TRUE]

\* operator === undefined ? "=" : operator
DefaultOperator(operator) == IF operator.t = "undefined" THEN "=" ELSE operator.s

where(q, column, operator, value) ==
    [q EXCEPT !.conditions = Append(@, Leaf(column, DefaultOperator(operator), value, q.nextType)),
              !.nextType = "AND"]

orWhere(q, column, operator, value) ==
    [q EXCEPT !.conditions = Append(@, Leaf(column, DefaultOperator(operator), value, "OR"))]

or(q) == [q EXCEPT !.nextType = "OR"]

and(q) == [q EXCEPT !.nextType = "AND"]

\* can be destructured as [value1, value2]: arrays and strings are iterable
Iterable(values) == values.t \in {"array", "string"}

\* [value1, value2] destructured from the argument: elements of an array,
\* characters of a string, undefined past the end
Elem(values, i) ==
    IF values.t = "string"
    THEN IF i <= Len(values.s) THEN Str(SubSeq(values.s, i, i)) ELSE Undefined
    ELSE IF i <= Len(values.a) THEN values.a[i] ELSE Undefined

\* destructuring an argument that is not iterable throws before the body
whereBetweenError(values) == IF Iterable(values) THEN "" ELSE "TypeError: not iterable"

\* mutant: the second bound is not required
whereBetween_FirstOnly(q, column, values) ==
    IF Elem(values, 1).t # "undefined"
    THEN [q EXCEPT !.conditions =
                      Append(@, Leaf(column, "BETWEEN", Arr(<<Elem(values, 1), Elem(values, 2)>>), q.nextType)),
                   !.nextType = "AND"]
    ELSE q

whereBetween(q, column, values) ==
    IF Elem(values, 1).t # "undefined" /\ Elem(values, 2).t # "undefined"
    THEN [q EXCEPT !.conditions =
                      Append(@, Leaf(column, "BETWEEN", Arr(<<Elem(values, 1), Elem(values, 2)>>), q.nextType)),
                   !.nextType = "AND"]
    ELSE q

whereIn(q, column, values) ==
    IF values.t = "array" /\ Len(values.a) > 0
    THEN [q EXCEPT !.conditions = Append(@, Leaf(column, "IN", values, q.nextType)),
                   !.nextType = "AND"]
    ELSE q

\* mutant: the pending combinator is not reset after the append
whereNull_NoReset(q, column) ==
    [q EXCEPT !.conditions = Append(@, Leaf(column, "IS NULL", Undefined, q.nextType))]

whereNull(q, column) ==
    [q EXCEPT !.conditions = Append(@, Leaf(column, "IS NULL", Undefined, q.nextType)),
              !.nextType = "AND"]

whereNotNull(q, column) ==
    [q EXCEPT !.conditions = Append(@, Leaf(column, "IS NOT NULL", Undefined, q.nextType)),
              !.nextType = "AND"]

(***************************************************************************)
(* Rendering of the condition list                                         *)
(***************************************************************************)
\* the text of one node without its prefix
ConditionStr(cond) ==
    IF cond.isGroup THEN "(" \o cond.query \o ")"
    ELSE CASE cond.operator = "BETWEEN" ->
                cond.column \o " BETWEEN " \o FormatLiteral(Elem(cond.value, 1))
                            \o " AND " \o FormatLiteral(Elem(cond.value, 2))
           [] cond.operator = "IN" ->
                cond.column \o " IN ("
                   \o Join([i \in 1..Len(cond.value.a) |-> FormatLiteral(cond.value.a[i])], ", ")
                   \o ")"
           [] cond.operator = "IS NULL" -> cond.column \o " IS NULL"
           [] cond.operator = "IS NOT NULL" -> cond.column \o " IS NOT NULL"
           [] OTHER -> cond.column \o " " \o cond.operator \o " " \o FormatLiteral(cond.value)

\* mutant: the combinator is emitted before the first node too
ConditionPrefix_EveryNode(cond, index) == " " \o cond.type \o " "

\* index === 0 ? '' : ` ${cond.type} `   (index is 1-based here)
ConditionPrefix(cond, index) == IF index = 1 THEN "" ELSE " " \o cond.type \o " "

buildConditions(q) ==
    Join([i \in 1..Len(q.conditions) |->
            ConditionPrefix(q.conditions[i], i) \o ConditionStr(q.conditions[i])], "")

(***************************************************************************)
(* TableQuery: projection, joins, ordering, grouping, pagination           *)
(***************************************************************************)
\* mutant: the projection forgets the DISTINCT flag
select_DropsDistinct(q, fields) ==
    IF Len(fields) > 0
    THEN [q EXCEPT !.query = "SELECT " \o Join(fields, ", ") \o " FROM \"" \o q.tableName \o "\""]
    ELSE q

select(q, fields) ==
    IF Len(fields) > 0
    THEN [q EXCEPT !.query = "SELECT " \o (IF q._distinct THEN "DISTINCT " ELSE "")
                                 \o Join(fields, ", ") \o " FROM \"" \o q.tableName \o "\""]
    ELSE q

\* s.replace(/^SELECT /, 'SELECT DISTINCT ')
ReplaceSelect(s) ==
    IF StartsWith(s, "SELECT ")
    THEN "SELECT DISTINCT " \o SubSeq(s, Len("SELECT ") + 1, Len(s))
    ELSE s

distinct(q) == [q EXCEPT !._distinct = TRUE, !.query = ReplaceSelect(q.query)]

\* `SELECT <FN>(${column}) AS <fn> FROM "${this.tableName}"`
Aggregate(q, fn, alias, column) ==
    "SELECT " \o fn \o "(" \o column \o ") AS " \o alias \o " FROM \"" \o q.tableName \o "\""

count(q, column) == [q EXCEPT !.query = Aggregate(q, "COUNT", "count", column)]
\* mutant: the aggregate is spliced into the projection it finds
sum_IntoProjection(q, column) ==
    [q EXCEPT !.query = IF StartsWith(q.query, "SELECT * ")
                        THEN Aggregate(q, "SUM", "sum", column)
                        ELSE "SELECT SUM(" \o column \o ") AS sum, "
                                \o SubSeq(q.query, Len("SELECT ") + 1, Len(q.query))]

sum(q, column) == [q EXCEPT !.query = Aggregate(q, "SUM", "sum", column)]
avg(q, column) == [q EXCEPT !.query = Aggregate(q, "AVG", "avg", column)]
max(q, column) == [q EXCEPT !.query = Aggregate(q, "MAX", "max", column)]
min(q, column) == [q EXCEPT !.query = Aggregate(q, "MIN", "min", column)]

JoinClause(kind, table, column1, operator, column2) ==
    kind \o " \"" \o table \o "\" ON " \o column1 \o " " \o operator \o " " \o column2

join(q, table, column1, operator, column2) ==
    [q EXCEPT !.joins = Append(@, JoinClause("JOIN", table, column1, operator, column2))]
leftJoin(q, table, column1, operator, column2) ==
    [q EXCEPT !.joins = Append(@, JoinClause("LEFT JOIN", table, column1, operator, column2))]
rightJoin(q, table, column1, operator, column2) ==
    [q EXCEPT !.joins = Append(@, JoinClause("RIGHT JOIN", table, column1, operator, column2))]

LowerCase == "abcdefghijklmnopqrstuvwxyz"
UpperCase == "ABCDEFGHIJKLMNOPQRSTUVWXYZ"
UpperChar(c) ==
    IF \E i \in 1..Len(LowerCase) : SubSeq(LowerCase, i, i) = c
    THEN LET i == CHOOSE i \in 1..Len(LowerCase) : SubSeq(LowerCase, i, i) = c
         IN  SubSeq(UpperCase, i, i)
    ELSE c
\* String.prototype.toUpperCase
ToUpperCase(s) == Join([i \in 1..Len(s) |-> UpperChar(SubSeq(s, i, i))], "")

validDirections == {"ASC", "DESC"}

\* the error orderBy throws for this direction, "" if it throws none
orderByError(direction) ==
    IF ToUpperCase(direction) \in validDirections THEN ""
    ELSE "Invalid direction: " \o direction \o ". Use 'ASC' or 'DESC'."

\* mutant: the direction is stored as it was given
orderBy_AsGiven(q, column, direction) ==
    IF ToUpperCase(direction) \in validDirections
    THEN [q EXCEPT !._orderBy = Append(@, [column |-> column, direction |-> direction])]
    ELSE q

orderBy(q, column, direction) ==
    IF ToUpperCase(direction) \in validDirections
    THEN [q EXCEPT !._orderBy = Append(@, [column |-> column, direction |-> ToUpperCase(direction)])]
    ELSE q

groupBy(q, column) == [q EXCEPT !._groupBy = Append(@, column)]

limit(q, number) == [q EXCEPT !.limitValue = number]

page(q, number) == [q EXCEPT !.pageValue = number]

(***************************************************************************)
(* Rendering of the whole statement                                        *)
(***************************************************************************)
\* v !== null && v !== undefined && !Number.isNaN(v)
IsSet(v) == v.t \notin {"null", "undefined"}

\* the text-prefix test that suppresses ORDER BY
IsAggregateQuery(query) ==
    \/ StartsWith(query, "SELECT COUNT")
    \/ StartsWith(query, "SELECT SUM")
    \/ StartsWith(query, "SELECT AVG")
    \/ StartsWith(query, "SELECT MAX")
    \/ StartsWith(query, "SELECT MIN")

JoinsClause(q) == IF Len(q.joins) > 0 THEN " " \o Join(q.joins, " ") ELSE ""

WhereClause(q) ==
    IF Len(buildConditions(q)) > 0 THEN " WHERE " \o buildConditions(q) ELSE ""

GroupByClause(q) == IF Len(q._groupBy) > 0 THEN " GROUP BY " \o Join(q._groupBy, ", ") ELSE ""

LimitClause(q) == IF IsSet(q.limitValue) THEN " LIMIT " \o ToStr(q.limitValue) ELSE ""

OffsetClause(q) ==
    IF Truthy(q.limitValue) /\ IsSet(q.pageValue)
    THEN " OFFSET " \o ToString((q.pageValue.n - 1) * q.limitValue.n)
    ELSE ""

OrderByClause(q) ==
    IF Len(q._orderBy) > 0 /\ ~IsAggregateQuery(q.query)
    THEN " ORDER BY " \o Join([i \in 1..Len(q._orderBy) |->
                                  q._orderBy[i].column \o " " \o q._orderBy[i].direction], ", ")
    ELSE ""

\* mutant: ORDER BY is rendered before LIMIT and OFFSET
buildQuery_OrderByBeforeLimit(q) ==
    q.query \o JoinsClause(q) \o WhereClause(q) \o GroupByClause(q)
            \o OrderByClause(q) \o LimitClause(q) \o OffsetClause(q)

\* buildQuery(includeSelect = true)
buildQuery(q) ==
    q.query \o JoinsClause(q) \o WhereClause(q) \o GroupByClause(q)
            \o LimitClause(q) \o OffsetClause(q) \o OrderByClause(q)

(***************************************************************************)
(* whereGroup: the callback is a script of calls made on the nested        *)
(* builder                                                                 *)
(***************************************************************************)
\* one chained condition call: the method and its arguments
Call(m, column, operator, value) ==
    [m |-> m, column |-> column, operator |-> operator, value |-> value]

\* the method call `c` made on builder state q
ApplyCall(q, c) ==
    CASE c.m = "where" -> where(q, c.column, c.operator, c.value)
      [] c.m = "orWhere" -> orWhere(q, c.column, c.operator, c.value)
      [] c.m = "or" -> or(q)
      [] c.m = "and" -> and(q)
      [] c.m = "whereBetween" -> whereBetween(q, c.column, c.value)
      [] c.m = "whereIn" -> whereIn(q, c.column, c.value)
      [] c.m = "whereNull" -> whereNull(q, c.column)
      [] c.m = "whereNotNull" -> whereNotNull(q, c.column)
      [] OTHER -> q

RECURSIVE ApplyScript(_, _)
\* callback(groupQuery): the calls of the script, in order
ApplyScript(q, script) ==
    IF Len(script) = 0 THEN q
    ELSE ApplyScript(ApplyCall(q, Head(script)), Tail(script))

\* mutant: the group builder's pending combinator becomes the outer one
whereGroup_SharedCombinator(q, script) ==
    LET groupQuery == ApplyScript(NewTableQuery(q.tableName, 0), script)
        groupConditions == buildConditions(groupQuery)
    IN  [q EXCEPT !.conditions = Append(@, Group(groupConditions, q.nextType)),
                  !.nextType = groupQuery.nextType]

whereGroup(q, script) ==
    LET groupQuery == ApplyScript(NewTableQuery(q.tableName, 0), script)
        groupConditions == buildConditions(groupQuery)
    IN  [q EXCEPT !.conditions = Append(@, Group(groupConditions, q.nextType)),
                  !.nextType = "AND"]

(***************************************************************************)
(* Inputs                                                                  *)
(***************************************************************************)
Builders == 1..MaxBuilders
TableNames == {"users"}

\* the columns the table has on the server to begin with
TableColumns == {"id", "age"}
WhereArgs ==
    { Call("where", "age", Str(">"), Num(18)),
      Call("where", "name", Undefined, Str("Alice")) }
BetweenValues ==
    { Arr(<<>>), Arr(<<Num(1)>>), Arr(<<Num(1), Num(5)>>), Arr(<<Str("a"), Str("f")>>),
      Arr(<<Num(1), Num(5), Num(9)>>), Num(7) }
InValues == { Str("x"), Arr(<<>>), Arr(<<Num(1), Str("b")>>) }
ScriptCalls ==
    { Call("where", "age", Str(">"), Num(18)),
      Call("orWhere", "name", Undefined, Str("Alice")),
      Call("or", "", Undefined, Undefined) }
Scripts(maxLen) == UNION { [1..n -> ScriptCalls] : n \in 0..maxLen }

(***************************************************************************)
(* Actions: obtaining a builder, and the chained condition methods         *)
(***************************************************************************)
execVars == <<pool, pools, dbExists, columns, calls>>

\* Postgres.table(tableName)
Table(b, tableName) ==
    /\ ~tq[b].exists
    /\ tq' = [tq EXCEPT ![b] = NewTableQuery(tableName, pool)]
    /\ UNCHANGED <<chain, hist, baseBy, thrown, execVars>>

\* a chained call on builder b, made of n calls in all, that leaves the
\* builder as q and throws error ("" for none)
ChainedOrThrown(b, q, n, error) ==
    /\ tq[b].exists
    /\ chain[b] + n <= MaxChain
    /\ tq' = [tq EXCEPT ![b] = q]
    /\ chain' = [chain EXCEPT ![b] = @ + n]
    /\ thrown' = error
    /\ UNCHANGED execVars

Chained(b, q, n) == ChainedOrThrown(b, q, n, "")

\* the history entry of call c, which changed the builder from q to r
\* and threw error: the nodes it added, the place of the last node, the
\* pending combinator before and after, whether the whole builder is as it
\* was, and whether all but the new nodes and the pending combinator is
Entry(c, script, q, r, error) ==
    [m |-> c.m, column |-> c.column, operator |-> c.operator, value |-> c.value,
     script |-> script, appended |-> Len(r.conditions) > Len(q.conditions),
     added |-> Len(r.conditions) - Len(q.conditions), at |-> Len(r.conditions),
     before |-> q.nextType, after |-> r.nextType, same |-> r = q,
     baseBefore |-> q.query, base |-> r.query,
     kept |-> /\ Len(r.conditions) >= Len(q.conditions)
              /\ SubSeq(r.conditions, 1, Len(q.conditions)) = q.conditions
              /\ [r EXCEPT !.conditions = q.conditions, !.nextType = q.nextType] = q,
     ordered |-> Len(r._orderBy) - Len(q._orderBy),
     orderKept |-> /\ Len(r._orderBy) >= Len(q._orderBy)
                   /\ SubSeq(r._orderBy, 1, Len(q._orderBy)) = q._orderBy
                   /\ [r EXCEPT !._orderBy = q._orderBy] = q,
     orderAt |-> Len(r._orderBy),
     error |-> error]

Log(b, c, script) ==
    hist' = [hist EXCEPT ![b] = Append(@, Entry(c, script, tq[b], tq'[b], thrown'))]

Record(b, c, script) == Log(b, c, script) /\ UNCHANGED baseBy

\* a list of strings as the array of strings passed in a call
Strs(strs) == Arr([i \in 1..Len(strs) |-> Str(strs[i])])

Where(b, c) ==
    /\ Chained(b, where(tq[b], c.column, c.operator, c.value), 1)
    /\ Record(b, c, <<>>)

OrWhere(b, c) ==
    /\ Chained(b, orWhere(tq[b], c.column, c.operator, c.value), 1)
    /\ Record(b, [c EXCEPT !.m = "orWhere"], <<>>)

Or(b) ==
    /\ Chained(b, or(tq[b]), 1)
    /\ Record(b, Call("or", "", Undefined, Undefined), <<>>)

And(b) ==
    /\ Chained(b, and(tq[b]), 1)
    /\ Record(b, Call("and", "", Undefined, Undefined), <<>>)

WhereBetween(b, column, values) ==
    /\ IF Iterable(values)
       THEN Chained(b, whereBetween(tq[b], column, values), 1)
       ELSE ChainedOrThrown(b, tq[b], 1, whereBetweenError(values))
    /\ Record(b, Call("whereBetween", column, Undefined, values), <<>>)

WhereIn(b, column, values) ==
    /\ Chained(b, whereIn(tq[b], column, values), 1)
    /\ Record(b, Call("whereIn", column, Undefined, values), <<>>)

WhereNull(b, column) ==
    /\ Chained(b, whereNull(tq[b], column), 1)
    /\ Record(b, Call("whereNull", column, Undefined, Undefined), <<>>)

WhereNotNull(b, column) ==
    /\ Chained(b, whereNotNull(tq[b], column), 1)
    /\ Record(b, Call("whereNotNull", column, Undefined, Undefined), <<>>)

WhereGroup(b, script) ==
    /\ Chained(b, whereGroup(tq[b], script), 1 + Len(script))
    /\ Record(b, Call("whereGroup", "", Undefined, Undefined), script)

(***************************************************************************)
(* Actions: the chained projection, join, order and pagination methods     *)
(***************************************************************************)
Select(b, fields) ==
    /\ Chained(b, select(tq[b], fields), 1)
    /\ baseBy' = [baseBy EXCEPT ![b] = IF Len(fields) > 0 THEN "select" ELSE @]
    /\ Log(b, Call("select", "", Undefined, Strs(fields)), <<>>)

Distinct(b) ==
    /\ Chained(b, distinct(tq[b]), 1)
    /\ Record(b, Call("distinct", "", Undefined, Undefined), <<>>)

Count(b, column) ==
    /\ Chained(b, count(tq[b], column), 1)
    /\ baseBy' = [baseBy EXCEPT ![b] = "aggregate"]
    /\ Log(b, Call("count", column, Undefined, Undefined), <<>>)

Sum(b, column) ==
    /\ Chained(b, sum(tq[b], column), 1)
    /\ baseBy' = [baseBy EXCEPT ![b] = "aggregate"]
    /\ Log(b, Call("sum", column, Undefined, Undefined), <<>>)

Avg(b, column) ==
    /\ Chained(b, avg(tq[b], column), 1)
    /\ baseBy' = [baseBy EXCEPT ![b] = "aggregate"]
    /\ Log(b, Call("avg", column, Undefined, Undefined), <<>>)

Max(b, column) ==
    /\ Chained(b, max(tq[b], column), 1)
    /\ baseBy' = [baseBy EXCEPT ![b] = "aggregate"]
    /\ Log(b, Call("max", column, Undefined, Undefined), <<>>)

Min(b, column) ==
    /\ Chained(b, min(tq[b], column), 1)
    /\ baseBy' = [baseBy EXCEPT ![b] = "aggregate"]
    /\ Log(b, Call("min", column, Undefined, Undefined), <<>>)

JoinTable(b, table, column1, operator, column2) ==
    /\ Chained(b, join(tq[b], table, column1, operator, column2), 1)
    /\ Record(b, Call("join", table, Undefined, Strs(<<column1, operator, column2>>)), <<>>)

LeftJoin(b, table, column1, operator, column2) ==
    /\ Chained(b, leftJoin(tq[b], table, column1, operator, column2), 1)
    /\ Record(b, Call("leftJoin", table, Undefined, Strs(<<column1, operator, column2>>)), <<>>)

RightJoin(b, table, column1, operator, column2) ==
    /\ Chained(b, rightJoin(tq[b], table, column1, operator, column2), 1)
    /\ Record(b, Call("rightJoin", table, Undefined, Strs(<<column1, operator, column2>>)), <<>>)

OrderBy(b, column, direction) ==
    /\ ChainedOrThrown(b, orderBy(tq[b], column, direction), 1, orderByError(direction))
    /\ Record(b, Call("orderBy", column, Undefined, Str(direction)), <<>>)

GroupBy(b, column) ==
    /\ Chained(b, groupBy(tq[b], column), 1)
    /\ Record(b, Call("groupBy", column, Undefined, Undefined), <<>>)

Limit(b, number) ==
    /\ Chained(b, limit(tq[b], Num(number)), 1)
    /\ Record(b, Call("limit", "", Undefined, Num(number)), <<>>)

Page(b, number) ==
    /\ Chained(b, page(tq[b], Num(number)), 1)
    /\ Record(b, Call("page", "", Undefined, Num(number)), <<>>)

(***************************************************************************)
(* The driver: pools, and what a statement sent to a pool can come back    *)
(* with                                                                    *)
(***************************************************************************)
\* new Pool({..., database}); "admin" is the pool opened without the target
\* database (part_000 names 'postgres', part_001 leaves the driver's default)
NewPool(database) == [database |-> database, ending |-> FALSE, out |-> 0]

Err(message, code) == [message |-> message, code |-> code]
NoError == Err("", "")
DatabaseMissing == Err("database does not exist", "3D000")
SqlError == Err("syntax error", "42601")
DuplicateDatabase == Err("database already exists", "42P04")
ConnectRefused == Err("connect ECONNREFUSED", "ECONNREFUSED")
PoolEnded == Err("Cannot use a pool after calling end on the pool", "")
EndedTwice == Err("Called end on pool more than once", "")
NoConnection == Err("No se ha establecido una conexion a la base de datos.", "")

RowSets == { <<>>, <<"row">> }
Ok(rows) == [ok |-> TRUE, rows |-> rows, error |-> NoError]
Failed(error) == [ok |-> FALSE, rows |-> <<>>, error |-> error]

\* the outcomes of a statement handed to pool id p; `refused` says the pool
\* was already ending when the statement was handed over
StatementOutcomes(p, refused) ==
    IF refused THEN { Failed(PoolEnded) }
    ELSE IF pools[p].database = "target" /\ ~dbExists THEN { Failed(DatabaseMissing) }
    ELSE { Ok(rows) : rows \in RowSets } \cup { Failed(SqlError) }

\* `CREATE DATABASE "${POSTGRES_DATABASE}"`
CreateDatabase == "CREATE DATABASE \"app\""

\* the outcomes of CREATE DATABASE sent on an administrative connection
CreateDatabaseOutcomes ==
    IF dbExists THEN { Failed(DuplicateDatabase) }
    ELSE { Ok(<<>>), Failed(SqlError) }

(***************************************************************************)
(* Asynchronous calls                                                      *)
(***************************************************************************)
NoResult == [status |-> "", message |-> "", data |-> "none", rows |-> <<>>, list |-> <<>>]

\* a call that has run its synchronous part
NewCall(kind, b, sql) ==
    [ kind |-> kind, b |-> b, sql |-> sql, pc |-> "start", p |-> 0, refused |-> FALSE,
      outcome |-> "pending", error |-> NoError, rows |-> <<>>, result |-> NoResult,
      cmds |-> <<>>, idx |-> 0, results |-> <<>>, input |-> Undefined,
      nconds |-> 0, where |-> "", sent |-> <<>>, prior |-> <<>>,
      recoveries |-> 0, failures |-> 0, lastFailure |-> NoError, raised |-> NoError,
      first |-> "", steps |-> <<>>, handle |-> 0 ]

Resolved(call, rows) == [call EXCEPT !.pc = "done", !.outcome = "resolved", !.rows = rows]
Rejected(call, error) ==
    [call EXCEPT !.pc = "done", !.outcome = "rejected", !.error = error]

Statement(p, sql) == [pool |-> p, sql |-> sql]

\* history: what the current #get_response did to which pool, in order
Step(op, p) == [op |-> op, pool |-> p]

\* the statement call.sql handed to pool id p: the call waits at pc
Sent(call, p, pc) ==
    [call EXCEPT !.pc = pc, !.p = p, !.refused = pools[p].ending,
                 !.sent = Append(@, Statement(p, call.sql)),
                 !.steps = Append(@, Step("query", p)), !.handle = p]

\* history: a step of the call failed with this error
Failing(call, error) == [call EXCEPT !.failures = @ + 1, !.lastFailure = error]

\* result[0] of a row set: undefined when there is no row
FirstRow(rows) == IF Len(rows) > 0 THEN rows[1] ELSE "undefined"

\* result[0] || null
FirstOrNull(rows) == IF Len(rows) > 0 THEN rows[1] ELSE "null"

\* `"${key}"` for each key of the row, joined by ', '; the keys of an array
\* are its indices
InsertColumns(row) ==
    Join([i \in 1..Len(row.a) |->
            "\"" \o (IF row.t = "array" THEN ToString(i - 1) ELSE row.a[i].key) \o "\""], ", ")

\* undefined and null become NULL, strings are quoted, the rest is inlined
InsertLiteral(value) ==
    IF value.t \in {"undefined", "null"} THEN "NULL" ELSE FormatLiteral(value)

InsertValues(row) ==
    Join([i \in 1..Len(row.a) |->
            InsertLiteral(IF row.t = "array" THEN row.a[i] ELSE row.a[i].value)], ", ")

InsertSql(q, row) ==
    "INSERT INTO \"" \o q.tableName \o "\" (" \o InsertColumns(row) \o ") VALUES ("
        \o InsertValues(row) \o ") RETURNING *"

InsertFailedError(error) == Err("Error al insertar los datos: " \o error.message, "")
DropFailedError(error) == Err("Error al eliminar la tabla: " \o error.message, "")

\* insert's loop reaches the next row: its statement goes through a new
\* #get_response, on the pool the builder holds by now
NextRow(call) ==
    LET q == tq[call.b]
        sql == InsertSql(q, call.input.a[call.idx + 1])
    IN  [call EXCEPT !.idx = @ + 1, !.sql = sql, !.pc = "query", !.p = q.conection,
                     !.refused = pools[q.conection].ending,
                     !.prior = @ \o call.sent, !.sent = <<Statement(q.conection, sql)>>,
                     !.steps = <<Step("query", q.conection)>>, !.handle = q.conection,
                     !.recoveries = 0, !.failures = 0, !.lastFailure = NoError]

\* mutant: insert goes on with the next row after a row failed
InsertRaised_NextRow(call, error) ==
    IF call.idx < Len(call.input.a) /\ tq[call.b].conection # 0
    THEN NextRow(call)
    ELSE Rejected(call, InsertFailedError(error))

\* insert: catch (error) { throw new Error('Error al insertar ...') }
InsertRaised(call, error) == Rejected(call, InsertFailedError(error))

\* #get_response returned rows to the terminal method that awaited it
Return(call, rows) ==
    CASE call.kind = "insert" ->
            LET pushed == [call EXCEPT !.results = Append(@, FirstRow(rows))]
            IN  IF call.idx < Len(call.input.a) THEN NextRow(pushed)
                ELSE Resolved(pushed, rows)
      [] call.kind \in {"first", "find"} ->
            [Resolved(call, rows) EXCEPT !.first = FirstOrNull(rows)]
      [] OTHER -> Resolved(call, rows)

\* #get_response threw error to the terminal method that awaited it
Throw(call, error) ==
    LET thrower == [call EXCEPT !.raised = error]
    IN  CASE call.kind = "insert" -> InsertRaised(thrower, error)
          [] call.kind = "drop" -> Rejected(thrower, DropFailedError(error))
          [] OTHER -> Rejected(thrower, error)

(***************************************************************************)
(* TableQuery terminal operations: the synchronous part                    *)
(***************************************************************************)
Obj(pairs) == [t |-> "object", s |-> "", n |-> 0, a |-> pairs]
Pair(key, value) == [key |-> key, value |-> value]

\* typeof data !== 'object' || Array.isArray(data)
NotAnObject(data) == data.t \notin {"object", "null"}

\* `"${key}" = ${literal}` for each key, joined by ', '
SetClause(data) ==
    Join([i \in 1..Len(data.a) |->
            "\"" \o data.a[i].key \o "\" = " \o FormatLiteral(data.a[i].value)], ", ")

\* mutant: the WHERE-required guard is missing
MissingWhere_Never(q) == FALSE

\* whereClauses.length === 0
MissingWhere(q) == Len(buildConditions(q)) = 0

UpdateSql(q, data) ==
    "UPDATE \"" \o q.tableName \o "\" SET " \o SetClause(data)
        \o " WHERE " \o buildConditions(q) \o " RETURNING *"

DeleteSql(q) ==
    "DELETE FROM \"" \o q.tableName \o "\" WHERE " \o buildConditions(q) \o " RETURNING *"

UpdateNeedsObject == Err("El metodo update requiere un objeto con pares clave-valor.", "")
UpdateNeedsWhere ==
    Err("Debe especificar al menos una condicion WHERE para realizar un update.", "")
DeleteNeedsWhere ==
    Err("Debe especificar al menos una condicion WHERE para realizar un delete.", "")

\* what the call remembers of the builder at the time it is made
Snapshot(call, q, input) ==
    [call EXCEPT !.nconds = Len(q.conditions), !.where = buildConditions(q), !.input = input]

\* a call is made and fails before any statement is sent
Refuse(call, error) ==
    /\ calls' = Append(calls, Rejected(call, error))
    /\ UNCHANGED <<tq, chain, hist, baseBy, thrown, pool, pools, dbExists, columns>>

\* mutant: the builder starts afresh once its statement has been sent
get_response_Resets(call) ==
    LET conection == tq[call.b].conection
    IN  IF conection = 0
        THEN /\ calls' = Append(calls, Throw(call, NoConnection))
             /\ UNCHANGED <<tq, chain, hist, baseBy, thrown, pool, pools, dbExists, columns>>
        ELSE /\ calls' = Append(calls, Sent(call, conection, "query"))
             /\ tq' = [tq EXCEPT ![call.b] = NewTableQuery(tq[call.b].tableName, conection)]
             /\ UNCHANGED <<chain, hist, baseBy, thrown, pool, pools, dbExists, columns>>

\* #get_response(sql) up to its first await: the statement goes to the
\* builder's pool, or the call fails when the builder has no pool
get_response(call) ==
    LET conection == tq[call.b].conection
    IN  IF conection = 0
        THEN /\ calls' = Append(calls, Throw(call, NoConnection))
             /\ UNCHANGED <<tq, chain, hist, baseBy, thrown, pool, pools, dbExists, columns>>
        ELSE /\ calls' = Append(calls, Sent(call, conection, "query"))
             /\ UNCHANGED <<tq, chain, hist, baseBy, thrown, pool, pools, dbExists, columns>>

CanCall(b) == Len(calls) < MaxCalls /\ tq[b].exists

Get(b) ==
    /\ CanCall(b)
    /\ get_response(Snapshot(NewCall("get", b, buildQuery(tq[b])), tq[b], Undefined))

Update(b, data) ==
    /\ CanCall(b)
    /\ LET q == tq[b]
       IN  IF NotAnObject(data)
           THEN Refuse(Snapshot(NewCall("update", b, ""), q, data), UpdateNeedsObject)
           ELSE IF MissingWhere(q)
           THEN Refuse(Snapshot(NewCall("update", b, ""), q, data), UpdateNeedsWhere)
           ELSE get_response(Snapshot(NewCall("update", b, UpdateSql(q, data)), q, data))

Delete(b) ==
    /\ CanCall(b)
    /\ LET q == tq[b]
       IN  IF MissingWhere(q)
           THEN Refuse(Snapshot(NewCall("delete", b, ""), q, Undefined), DeleteNeedsWhere)
           ELSE get_response(Snapshot(NewCall("delete", b, DeleteSql(q)), q, Undefined))

First(b) ==
    /\ CanCall(b)
    /\ get_response(Snapshot(NewCall("first", b, buildQuery(tq[b])), tq[b], Undefined))

\* mutant: find adds its condition as orWhere does
find_OrWhere(q, value, column) == orWhere(q, column, Str("="), value)

\* find: this.where(column, '=', value)
find(q, value, column) == where(q, column, Str("="), value)

\* find(value, column = 'id'): the condition is added to the builder itself,
\* and the query built from it goes through #get_response
Find(b, value, column) ==
    /\ CanCall(b)
    /\ chain[b] < MaxChain
    /\ LET q == find(tq[b], value, column)
           call == Snapshot(NewCall("find", b, buildQuery(q)), q, value)
       IN  /\ tq' = [tq EXCEPT ![b] = q]
           /\ chain' = [chain EXCEPT ![b] = @ + 1]
           /\ hist' = [hist EXCEPT ![b] =
                          Append(@, Entry(Call("find", column, Str("="), value), <<>>, tq[b], q, ""))]
           /\ calls' = Append(calls, IF q.conection = 0 THEN Throw(call, NoConnection)
                                     ELSE Sent(call, q.conection, "query"))
           /\ UNCHANGED <<baseBy, thrown, pool, pools, dbExists, columns>>

DropSql(q) == "DROP TABLE IF EXISTS \"" \o q.tableName \o "\""

Drop(b) ==
    /\ CanCall(b)
    /\ get_response(Snapshot(NewCall("drop", b, DropSql(tq[b])), tq[b], Undefined))

InsertNeedsArray ==
    Err("El metodo insert requiere un array de objetos con pares clave-valor.", "")
InsertNeedsObjects == Err("El array debe contener solo objetos validos.", "")

\* typeof item === 'object' && item !== null
IsObjectValue(item) == item.t \in {"object", "array"}

Insert(b, data) ==
    /\ CanCall(b)
    /\ LET q == tq[b]
           call == Snapshot(NewCall("insert", b, ""), q, data)
       IN  IF data.t # "array"
           THEN Refuse(call, InsertNeedsArray)
           ELSE IF \E i \in 1..Len(data.a) : ~IsObjectValue(data.a[i])
           THEN Refuse(call, InsertNeedsObjects)
           ELSE IF Len(data.a) = 0
           THEN /\ calls' = Append(calls, Resolved(call, <<>>))
                /\ UNCHANGED <<tq, chain, hist, baseBy, thrown, pool, pools, dbExists, columns>>
           ELSE get_response([call EXCEPT !.idx = 1, !.sql = InsertSql(q, data.a[1])])

\* const { name, type, ... } = field: a property of an object, undefined
\* when the object has none of that name or the value is no plain object
Prop(v, key) ==
    IF v.t = "object" /\ \E i \in 1..Len(v.a) : v.a[i].key = key
    THEN v.a[CHOOSE i \in 1..Len(v.a) : v.a[i].key = key].value
    ELSE Undefined

FieldNeedsNameAndType == Err("Cada campo debe tener un nombre y un tipo.", "")

\* !name || !type
FieldIncomplete(field) == ~Truthy(Prop(field, "name")) \/ ~Truthy(Prop(field, "type"))

\* (length && type !== "TEXT") ? `${type}(${length})` : `${type}`
TypeDefinition(field) ==
    LET type == Prop(field, "type")
        length == Prop(field, "length")
    IN  IF Truthy(length) /\ type # Str("TEXT")
        THEN ToStr(type) \o "(" \o ToStr(length) \o ")"
        ELSE ToStr(type)

QuotedDefaultTypes == {"VARCHAR", "CHAR", "TEXT", "ENUM", "SET"}

\* if (defaultValue) { ... }: nothing for a falsy default or 'NONE', the
\* value in quotes for the character types, the value as it is otherwise
DefaultClause(field) ==
    LET defaultValue == Prop(field, "defaultValue")
    IN  IF ~Truthy(defaultValue) THEN ""
        ELSE IF ToUpperCase(Prop(field, "type").s) \in QuotedDefaultTypes
        THEN " DEFAULT '" \o ToStr(defaultValue) \o "'"
        ELSE IF defaultValue = Str("NONE") THEN ""
        ELSE " DEFAULT " \o ToStr(defaultValue)

\* options.includes(option)
HasOption(field, option) ==
    LET options == Prop(field, "options")
    IN  options.t = "array" /\ \E i \in 1..Len(options.a) : options.a[i] = Str(option)

OptionsClause(field) ==
    (IF HasOption(field, "primary") THEN " PRIMARY KEY" ELSE "")
        \o (IF HasOption(field, "unique") THEN " UNIQUE" ELSE "")

\* `, FOREIGN KEY ("${name}") REFERENCES "${foreign.table}"("${foreign.column}")`
ForeignKeyClause(field) ==
    LET foreign == Prop(field, "foreign")
    IN  IF ~Truthy(foreign) THEN ""
        ELSE ", FOREIGN KEY (\"" \o ToStr(Prop(field, "name")) \o "\") REFERENCES \""
                \o ToStr(Prop(foreign, "table")) \o "\"(\""
                \o ToStr(Prop(foreign, "column")) \o "\")"

\* the definition of a column, as create and columns().add render it
ColumnDefinition(field) ==
    "\"" \o ToStr(Prop(field, "name")) \o "\" " \o TypeDefinition(field)
        \o DefaultClause(field) \o OptionsClause(field)

\* variant: the foreign key is left out of the field's definition and the
\* clauses of all fields come after the last definition, the order the older
\* part_000 (lines 135-146) has
CreateSql_ForeignKeysLast(q, fields) ==
    "CREATE TABLE IF NOT EXISTS \"" \o q.tableName \o "\" ("
        \o Join([i \in 1..Len(fields.a) |-> ColumnDefinition(fields.a[i])], ", ")
        \o Join([i \in 1..Len(fields.a) |-> ForeignKeyClause(fields.a[i])], "")
        \o ")"

\* create: each field's definition, with its foreign key clause at its end,
\* joined by ', '
CreateSql(q, fields) ==
    "CREATE TABLE IF NOT EXISTS \"" \o q.tableName \o "\" ("
        \o Join([i \in 1..Len(fields.a) |->
                    ColumnDefinition(fields.a[i]) \o ForeignKeyClause(fields.a[i])], ", ")
        \o ")"

\* mutant: create renders the fields without looking at name and type
IncompleteFields_Never(fields) == FALSE

\* fields.map(...) throws at a field without name or type
IncompleteFields(fields) == \E i \in 1..Len(fields.a) : FieldIncomplete(fields.a[i])

\* create(fields): the error of an incomplete field is rethrown as it is
Create(b, fields) ==
    /\ CanCall(b)
    /\ LET q == tq[b]
       IN  IF IncompleteFields(fields)
           THEN Refuse(Snapshot(NewCall("create", b, ""), q, fields), FieldNeedsNameAndType)
           ELSE get_response(Snapshot(NewCall("create", b, CreateSql(q, fields)), q, fields))

(***************************************************************************)
(* Columns: the handle columns() returns, with its own #get_response       *)
(***************************************************************************)
AddColumnSql(q, field) ==
    "ALTER TABLE \"" \o q.tableName \o "\" ADD COLUMN " \o ColumnDefinition(field)

EditColumnSql(q, field) ==
    "ALTER TABLE \"" \o q.tableName \o "\" ALTER COLUMN \"" \o ToStr(Prop(field, "name"))
        \o "\" TYPE " \o TypeDefinition(field) \o DefaultClause(field) \o OptionsClause(field)

DropColumnSql(q, columnName) ==
    "ALTER TABLE \"" \o q.tableName \o "\" DROP COLUMN \"" \o columnName \o "\""

\* Columns.#get_response up to its await: the statement goes to the pool the
\* handle copied from the builder, or the call fails when there is none
Columns_get_response(call) ==
    LET conection == tq[call.b].conection
    IN  /\ calls' = Append(calls, IF conection = 0 THEN Rejected(call, NoConnection)
                                  ELSE Sent(call, conection, "query"))
        /\ UNCHANGED <<tq, chain, hist, baseBy, thrown, pool, pools, dbExists, columns>>

\* columns().add(field): `field` is destructured whatever it is, so a list
\* of fields has neither name nor type
ColumnsAdd(b, field) ==
    /\ CanCall(b)
    /\ IF FieldIncomplete(field)
       THEN Refuse(Snapshot(NewCall("columns.add", b, ""), tq[b], field), FieldNeedsNameAndType)
       ELSE Columns_get_response(
                Snapshot(NewCall("columns.add", b, AddColumnSql(tq[b], field)), tq[b], field))

\* columns().edit(field)
ColumnsEdit(b, field) ==
    /\ CanCall(b)
    /\ IF FieldIncomplete(field)
       THEN Refuse(Snapshot(NewCall("columns.edit", b, ""), tq[b], field), FieldNeedsNameAndType)
       ELSE Columns_get_response(
                Snapshot(NewCall("columns.edit", b, EditColumnSql(tq[b], field)), tq[b], field))

\* columns().drop(columnName)
ColumnsDrop(b, columnName) ==
    /\ CanCall(b)
    /\ Columns_get_response(
            Snapshot(NewCall("columns.drop", b, DropColumnSql(tq[b], columnName)),
                     tq[b], Str(columnName)))

NotAFunction(member) == Err("columns(...)." \o member \o " is not a function", "TypeError")

\* class Columns has the members add, edit and drop only: calling any other
\* member of the handle raises before anything is sent
ColumnsMissingMember(b, member, input) ==
    /\ CanCall(b)
    /\ Refuse(Snapshot(NewCall("columns." \o member, b, ""), tq[b], input), NotAFunction(member))

\* columns().get()
ColumnsGet(b) == ColumnsMissingMember(b, "get", Undefined)

\* columns().delete(names)
ColumnsDelete(b, names) == ColumnsMissingMember(b, "delete", names)

IsColumnsCall(call) == StartsWith(call.kind, "columns.")

\* the column an ALTER TABLE of the handle is about
ColumnOf(call) ==
    IF call.kind = "columns.drop" THEN call.input.s ELSE ToStr(Prop(call.input, "name"))

UndefinedTable == Err("relation does not exist", "42P01")
UndefinedColumn == Err("column does not exist", "42703")
DuplicateColumn == Err("column already exists", "42701")

\* what the server answers to the ALTER TABLE of a call, given the columns
\* the table has
SchemaOutcomes(call) ==
    IF columns = {} THEN { Failed(UndefinedTable) }
    ELSE IF call.kind = "columns.add"
    THEN (IF ColumnOf(call) \in columns THEN { Failed(DuplicateColumn) } ELSE { Ok(<<>>) })
    ELSE (IF ColumnOf(call) \in columns THEN { Ok(<<>>) } ELSE { Failed(UndefinedColumn) })

ColumnsOutcomes(call) ==
    IF call.refused THEN { Failed(PoolEnded) }
    ELSE IF pools[call.p].database = "target" /\ ~dbExists THEN { Failed(DatabaseMissing) }
    ELSE SchemaOutcomes(call) \cup { Failed(SqlError) }

\* the columns of the table once the ALTER TABLE of a call has succeeded
Altered(call) ==
    CASE call.kind = "columns.add" -> columns \cup {ColumnOf(call)}
      [] call.kind = "columns.drop" -> columns \ {ColumnOf(call)}
      [] OTHER -> columns

\* Columns.#get_response: the statement settles; whatever it fails with is
\* thrown as it is
ColumnsQueryDone(c) ==
    /\ c \in 1..Len(calls)
    /\ IsColumnsCall(calls[c])
    /\ calls[c].pc = "query"
    /\ \E o \in ColumnsOutcomes(calls[c]) :
          /\ calls' = [calls EXCEPT ![c] =
                          IF o.ok THEN Resolved(@, o.rows)
                          ELSE Rejected(Failing(@, o.error), o.error)]
          /\ columns' = IF o.ok THEN Altered(calls[c]) ELSE columns
    /\ UNCHANGED <<tq, chain, hist, baseBy, thrown, pool, pools, dbExists>>

(***************************************************************************)
(* #get_response after its first await: the result, or the recovery        *)
(***************************************************************************)
IsBuilderCall(c) ==
    c \in 1..Len(calls) /\ calls[c].kind # "query" /\ ~IsColumnsCall(calls[c])

\* mutant: every failure of the statement starts the recovery
IsDatabaseMissing_AnyError(error) == TRUE

\* error.code === '3D000'
IsDatabaseMissing(error) == error.code = "3D000"

\* mutant: a recovery begins only while no other call is inside one
EndPool_Exclusive(c, call, p, pc) ==
    /\ \A d \in 1..Len(calls) :
          d # c => calls[d].pc \notin {"end1", "connect", "createdb", "end2", "requery"}
    /\ IF pools[p].ending
       THEN /\ calls' = [calls EXCEPT ![c] = Throw(Failing(call, EndedTwice), EndedTwice)]
            /\ UNCHANGED pools
       ELSE /\ calls' = [calls EXCEPT ![c] =
                             [call EXCEPT !.pc = pc, !.p = p, !.steps = Append(@, Step("end", p))]]
            /\ pools' = [pools EXCEPT ![p].ending = TRUE]

\* mutant: the recovery goes on without ending the pool
EndPool_NotEnded(c, call, p, pc) ==
    /\ calls' = [calls EXCEPT ![c] = [call EXCEPT !.pc = pc, !.p = p]]
    /\ UNCHANGED pools

\* pool.end() called on pool id p by `call`, which then waits at pc; a pool
\* that is already ending rejects the second end()
EndPool(c, call, p, pc) ==
    IF pools[p].ending
    THEN /\ calls' = [calls EXCEPT ![c] = Throw(Failing(call, EndedTwice), EndedTwice)]
         /\ UNCHANGED pools
    ELSE /\ calls' = [calls EXCEPT ![c] =
                          [call EXCEPT !.pc = pc, !.p = p, !.steps = Append(@, Step("end", p))]]
         /\ pools' = [pools EXCEPT ![p].ending = TRUE]

\* the first conection.query(sql) settles
QueryDone(c) ==
    /\ IsBuilderCall(c)
    /\ calls[c].pc = "query"
    /\ \E o \in StatementOutcomes(calls[c].p, calls[c].refused) :
          IF o.ok
          THEN /\ calls' = [calls EXCEPT ![c] = Return(@, o.rows)]
               /\ UNCHANGED pools
          ELSE IF IsDatabaseMissing(o.error)
          THEN EndPool(c, [Failing(calls[c], o.error) EXCEPT !.recoveries = @ + 1],
                       tq[calls[c].b].conection, "end1")
          ELSE /\ calls' = [calls EXCEPT ![c] = Throw(Failing(@, o.error), o.error)]
               /\ UNCHANGED pools
    /\ UNCHANGED <<tq, chain, hist, baseBy, thrown, pool, dbExists, columns>>

\* the first end() resolves: the administrative pool is opened and a client
\* is asked of it
AdminPoolOpened(c) ==
    /\ IsBuilderCall(c)
    /\ calls[c].pc = "end1"
    /\ pools' = Append(pools, NewPool("admin"))
    /\ tq' = [tq EXCEPT ![calls[c].b].conection = Len(pools) + 1]
    /\ calls' = [calls EXCEPT ![c] =
                    [@ EXCEPT !.pc = "connect", !.p = Len(pools) + 1,
                              !.steps = Append(@, Step("open", Len(pools) + 1))]]
    /\ UNCHANGED <<chain, hist, baseBy, thrown, pool, dbExists, columns>>

\* connect() settles: CREATE DATABASE is sent on the client, which is
\* checked out of the administrative pool from now on
Connected(c) ==
    /\ IsBuilderCall(c)
    /\ calls[c].pc = "connect"
    /\ \E ok \in BOOLEAN :
          IF ok
          THEN /\ calls' = [calls EXCEPT ![c] =
                                [@ EXCEPT !.pc = "createdb",
                                          !.sent = Append(@, Statement(calls[c].p, CreateDatabase)),
                                          !.steps = Append(@, Step("create", calls[c].p))]]
               /\ pools' = [pools EXCEPT ![calls[c].p].out = @ + 1]
          ELSE /\ calls' = [calls EXCEPT ![c] = Throw(Failing(@, ConnectRefused), ConnectRefused)]
               /\ UNCHANGED pools
    /\ UNCHANGED <<tq, chain, hist, baseBy, thrown, pool, dbExists, columns>>

\* CREATE DATABASE settles: the builder's pool is ended again
DatabaseCreated(c) ==
    /\ IsBuilderCall(c)
    /\ calls[c].pc = "createdb"
    /\ \E o \in CreateDatabaseOutcomes :
          IF o.ok
          THEN /\ dbExists' = TRUE
               /\ EndPool(c, calls[c], tq[calls[c].b].conection, "end2")
          ELSE /\ calls' = [calls EXCEPT ![c] = Throw(Failing(@, o.error), o.error)]
               /\ UNCHANGED <<pools, dbExists>>
    /\ UNCHANGED <<tq, chain, hist, baseBy, thrown, pool, columns>>

\* the second end() resolves: the target pool is opened again and the
\* original statement is sent to it
TargetPoolOpened(c) ==
    /\ IsBuilderCall(c)
    /\ calls[c].pc = "end2"
    /\ pools' = Append(pools, NewPool("target"))
    /\ tq' = [tq EXCEPT ![calls[c].b].conection = Len(pools) + 1]
    /\ calls' = [calls EXCEPT ![c] =
                    [@ EXCEPT !.pc = "requery", !.p = Len(pools) + 1, !.refused = FALSE,
                              !.sent = Append(@, Statement(Len(pools) + 1, calls[c].sql)),
                              !.steps = @ \o <<Step("open", Len(pools) + 1),
                                                Step("query", Len(pools) + 1)>>]]
    /\ UNCHANGED <<chain, hist, baseBy, thrown, pool, dbExists, columns>>

\* mutant: a re-run that fails with database-missing is run once more
RetryFailed_RunAgain(call, error) ==
    IF IsDatabaseMissing(error)
    THEN [call EXCEPT !.sent = Append(@, Statement(call.p, call.sql)),
                      !.steps = Append(@, Step("query", call.p))]
    ELSE Throw(call, error)

\* catch (error) { throw error } around the recovery: the re-run's error
\* is what #get_response throws, whatever its code
RetryFailed(call, error) == Throw(call, error)

\* the re-run of the statement settles
RetryDone(c) ==
    /\ IsBuilderCall(c)
    /\ calls[c].pc = "requery"
    /\ \E o \in StatementOutcomes(calls[c].p, calls[c].refused) :
          calls' = [calls EXCEPT ![c] =
                       IF o.ok THEN Return(@, o.rows)
                       ELSE RetryFailed(Failing(@, o.error), o.error)]
    /\ UNCHANGED <<tq, chain, hist, baseBy, thrown, pool, pools, dbExists, columns>>

\* the environment: the target database is dropped on the server
DropDatabase ==
    /\ dbExists
    /\ dbExists' = FALSE
    /\ columns' = {}
    /\ UNCHANGED <<tq, chain, hist, baseBy, thrown, pool, pools, calls>>

(***************************************************************************)
(* Postgres.query: the raw-query entry point                               *)
(***************************************************************************)
\* the least index at which sep occurs in s, 0 if it does not
IndexOf(s, sep) ==
    IF Includes(s, sep)
    THEN CHOOSE i \in 1..Len(s) :
            /\ SubSeq(s, i, i + Len(sep) - 1) = sep
            /\ \A j \in 1..(i - 1) : SubSeq(s, j, j + Len(sep) - 1) # sep
    ELSE 0

RECURSIVE Split(_, _)
\* String.prototype.split
Split(s, sep) ==
    IF IndexOf(s, sep) = 0 THEN <<s>>
    ELSE <<SubSeq(s, 1, IndexOf(s, sep) - 1)>>
            \o Split(SubSeq(s, IndexOf(s, sep) + Len(sep), Len(s)), sep)

\* cmd.trim().length > 0
NotBlank(cmd) == \E i \in 1..Len(cmd) : SubSeq(cmd, i, i) \notin {" ", "\n", "\t"}

\* sqlQuery.split(';').filter(cmd => cmd.trim().length > 0)
sqlCommands(sqlQuery) == SelectSeq(Split(sqlQuery, ";"), NotBlank)

QueryNeedsString == Err("The SQL query must be a string.", "")
PoolNotAvailable == Err("Database connection pool is not available.", "")

\* mutant: data is the list of row sets however many commands ran
Success_AlwaysList(results) ==
    [ status |-> "success", message |-> "Query executed successfully",
      data |-> "list", rows |-> <<>>, list |-> results ]

Success(results) ==
    [ status |-> "success", message |-> "Query executed successfully",
      data |-> IF Len(results) = 1 THEN "rows" ELSE "list",
      rows |-> IF Len(results) = 1 THEN results[1] ELSE <<>>,
      list |-> IF Len(results) = 1 THEN <<>> ELSE results ]

\* error.message || 'An error occurred while executing the query.'
Failure(error) ==
    [ status |-> "error",
      message |-> IF error.message # "" THEN error.message
                  ELSE "An error occurred while executing the query.",
      data |-> "null", rows |-> <<>>, list |-> <<>> ]

\* mutant: the catch block of query rethrows instead of answering
QueryFailed_Rethrow(call, error) == Rejected(call, error)

\* the catch block of query: the call answers with the error result
QueryFailed(call, error) ==
    [call EXCEPT !.pc = "done", !.outcome = "resolved", !.result = Failure(error)]

QuerySucceeded(call, results) ==
    [call EXCEPT !.pc = "done", !.outcome = "resolved", !.result = Success(results),
                 !.results = results]

\* `${command};` of the command at idx handed to this.pool
SendCommand(call, idx) ==
    Sent([call EXCEPT !.idx = idx, !.sql = call.cmds[idx] \o ";"], pool, "rawquery")

Query(sqlQuery) ==
    /\ Len(calls) < MaxCalls
    /\ LET call == [NewCall("query", 0, "") EXCEPT !.input = sqlQuery]
       IN  IF sqlQuery.t # "string"
           THEN calls' = Append(calls, Rejected(call, QueryNeedsString))
           ELSE LET withCmds == [call EXCEPT !.cmds = sqlCommands(sqlQuery.s)]
                IN  IF pool = 0
                    THEN calls' = Append(calls, QueryFailed(Failing(withCmds, PoolNotAvailable),
                                                            PoolNotAvailable))
                    ELSE IF Len(withCmds.cmds) = 0
                    THEN calls' = Append(calls, QuerySucceeded(withCmds, <<>>))
                    ELSE calls' = Append(calls, SendCommand(withCmds, 1))
    /\ UNCHANGED <<tq, chain, hist, baseBy, thrown, pool, pools, dbExists, columns>>

\* this.pool.query(query) settles inside the loop of query
RawQueryDone(c) ==
    /\ c \in 1..Len(calls)
    /\ calls[c].kind = "query"
    /\ calls[c].pc = "rawquery"
    /\ \E o \in StatementOutcomes(calls[c].p, calls[c].refused) :
          LET call == calls[c]
              results == Append(call.results, o.rows)
          IN  calls' = [calls EXCEPT ![c] =
                           IF ~o.ok THEN QueryFailed(Failing(call, o.error), o.error)
                           ELSE IF call.idx = Len(call.cmds) THEN QuerySucceeded(call, results)
                           ELSE SendCommand([call EXCEPT !.results = results], call.idx + 1)]
    /\ UNCHANGED <<tq, chain, hist, baseBy, thrown, pool, pools, dbExists, columns>>

(***************************************************************************)
(* Specification of the condition model: one builder, every condition      *)
(* method                                                                  *)
(***************************************************************************)
\* no builder yet, no call yet
InitBuilders ==
    /\ tq = [b \in Builders |-> NoBuilder]
    /\ chain = [b \in Builders |-> 0]
    /\ hist = [b \in Builders |-> <<>>]
    /\ baseBy = [b \in Builders |-> "default"]
    /\ thrown = ""
    /\ calls = <<>>

\* new Postgres(): the singleton holds the pool opened on the target
\* database, or null when `new Pool` threw
PostgresConstructed(poolThrew) ==
    /\ pool = IF poolThrew THEN 0 ELSE 1
    /\ pools = IF poolThrew THEN <<>> ELSE <<NewPool("target")>>

Init ==
    /\ InitBuilders /\ PostgresConstructed(FALSE)
    /\ dbExists = TRUE /\ columns = TableColumns

Next ==
    \/ \E n \in TableNames : Table(1, n)
    \/ \E c \in WhereArgs : Where(1, c)
    \/ \E c \in WhereArgs : OrWhere(1, c)
    \/ Or(1)
    \/ And(1)
    \/ \E v \in BetweenValues : WhereBetween(1, "age", v)
    \/ \E v \in InValues : WhereIn(1, "id", v)
    \/ WhereNull(1, "email")
    \/ WhereNotNull(1, "email")
    \/ \E s \in Scripts(MaxChain - 1) : WhereGroup(1, s)

Spec == Init /\ [][Next]_vars

(***************************************************************************)
(* Specification of the statement builder: one builder, the projection,    *)
(* join, order, grouping and pagination methods, and where                 *)
(***************************************************************************)
FieldLists == { <<>>, <<"name">>, <<"id", "COUNT(age) AS n">> }
Directions == {"ASC", "desc", "Desc", "up"}
LimitValues == 0..MaxLimit
PageValues == 0..MaxPage

NextQuery ==
    \/ \E n \in TableNames : Table(1, n)
    \/ \E f \in FieldLists : Select(1, f)
    \/ Distinct(1)
    \/ Count(1, "*")
    \/ Sum(1, "age")
    \/ Avg(1, "age")
    \/ Max(1, "age")
    \/ Min(1, "age")
    \/ JoinTable(1, "orders", "users.id", "=", "orders.user_id")
    \/ LeftJoin(1, "orders", "users.id", "=", "orders.user_id")
    \/ RightJoin(1, "orders", "users.id", "=", "orders.user_id")
    \/ \E d \in Directions : OrderBy(1, "name", d)
    \/ GroupBy(1, "age")
    \/ \E n \in LimitValues : Limit(1, n)
    \/ \E n \in PageValues : Page(1, n)
    \/ Where(1, Call("where", "age", Str(">"), Num(18)))

SpecQuery == Init /\ [][NextQuery]_vars

(***************************************************************************)
(* Specification of the execution layer: builders sharing the singleton's  *)
(* pool, overlapping terminal and raw-query calls, the recovery, and a     *)
(* server whose target database may be missing                             *)
(***************************************************************************)
UpdateData == { Obj(<<Pair("age", Num(1))>>), Arr(<<Num(1)>>) }
Row1 == Obj(<<Pair("name", Str("Al")), Pair("age", Null)>>)
Row2 == Obj(<<Pair("name", Str("Bo")), Pair("age", Num(7))>>)
InsertData ==
    { Num(5), Arr(<<>>), Arr(<<Row1, Str("x")>>), Arr(<<Arr(<<Num(1), Num(2)>>)>>),
      Arr(<<Row1, Row2>>) }
RawQueries == { Str("SELECT 1"), Str("SELECT 1; SELECT 2;"), Str(" ; "), Num(42) }
Calls == 1..MaxCalls

InitExec ==
    /\ InitBuilders
    /\ \E poolThrew \in BOOLEAN : PostgresConstructed(poolThrew)
    /\ dbExists \in BOOLEAN
    /\ columns = IF dbExists THEN TableColumns ELSE {}

\* where('age', '>', 18) chained on a builder that has no condition yet
FirstWhere(b) ==
    /\ tq[b].exists
    /\ Len(tq[b].conditions) = 0
    /\ Where(b, Call("where", "age", Str(">"), Num(18)))

NextExec ==
    \/ \E b \in Builders, n \in TableNames : Table(b, n)
    \/ \E b \in Builders : FirstWhere(b)
    \/ \E b \in Builders : Get(b)
    \/ \E b \in Builders, data \in UpdateData : Update(b, data)
    \/ \E b \in Builders : Delete(b)
    \/ \E sqlQuery \in RawQueries : Query(sqlQuery)
    \/ \E c \in Calls : QueryDone(c)
    \/ \E c \in Calls : AdminPoolOpened(c)
    \/ \E c \in Calls : Connected(c)
    \/ \E c \in Calls : DatabaseCreated(c)
    \/ \E c \in Calls : TargetPoolOpened(c)
    \/ \E c \in Calls : RetryDone(c)
    \/ \E c \in Calls : RawQueryDone(c)
    \/ DropDatabase

SpecExec == InitExec /\ [][NextExec]_vars

(***************************************************************************)
(* Specification of the other terminal operations: first, find, drop,      *)
(* insert and the columns() handle, on one builder, over the same          *)
(* execution layer and server                                              *)
(***************************************************************************)
\* or() once a first condition is there, so that a later find meets a
\* pending OR
PendingOr(b) ==
    /\ tq[b].exists
    /\ Len(tq[b].conditions) = 1
    /\ tq[b].nextType = "AND"
    /\ Or(b)

FindArgs == { [value |-> Num(1), column |-> "id"], [value |-> Str("Al"), column |-> "name"] }

NextOps ==
    \/ \E n \in TableNames : Table(1, n)
    \/ Get(1)
    \/ First(1)
    \/ \E a \in FindArgs : Find(1, a.value, a.column)
    \/ PendingOr(1)
    \/ Drop(1)
    \/ \E data \in InsertData : Insert(1, data)
    \/ ColumnsDrop(1, "age")
    \/ \E c \in Calls : ColumnsQueryDone(c)
    \/ \E c \in Calls : QueryDone(c)
    \/ \E c \in Calls : AdminPoolOpened(c)
    \/ \E c \in Calls : Connected(c)
    \/ \E c \in Calls : DatabaseCreated(c)
    \/ \E c \in Calls : TargetPoolOpened(c)
    \/ \E c \in Calls : RetryDone(c)
    \/ DropDatabase

SpecOps == InitExec /\ [][NextOps]_vars

(***************************************************************************)
(* Specification of literal rendering: values of every kind, a string with *)
(* a quote in it included, in where, whereIn, whereBetween, update, insert *)
(***************************************************************************)
LiteralValues == { Str("O'Neil"), Str("a"), Num(5), Bool(FALSE) }
LiteralPairs == { Arr(<<Str("O'Neil"), Num(5)>>), Arr(<<Bool(FALSE), Str("a")>>) }

\* a condition may still be added in this specification
RoomForCondition(b) == tq[b].exists /\ Len(tq[b].conditions) < MaxLiteralConditions

NextLiterals ==
    \/ \E n \in TableNames : Table(1, n)
    \/ \E v \in LiteralValues :
          RoomForCondition(1) /\ Where(1, Call("where", "name", Undefined, v))
    \/ \E values \in LiteralPairs : RoomForCondition(1) /\ WhereIn(1, "id", values)
    \/ \E values \in LiteralPairs : RoomForCondition(1) /\ WhereBetween(1, "age", values)
    \/ \E v \in LiteralValues : Update(1, Obj(<<Pair("name", v)>>))
    \/ \E v \in LiteralValues : Insert(1, Arr(<<Obj(<<Pair("name", v)>>)>>))
    \/ \E c \in Calls : QueryDone(c)

SpecLiterals == Init /\ [][NextLiterals]_vars

(***************************************************************************)
(* Specification of the schema operations: create and the columns()        *)
(* handle, on one builder, against a server that keeps the table's columns *)
(***************************************************************************)
Field(pairs) == Obj(pairs)
FieldId == Field(<<Pair("name", Str("id")), Pair("type", Str("SERIAL")),
                   Pair("options", Arr(<<Str("primary")>>))>>)
FieldOwner == Field(<<Pair("name", Str("owner")), Pair("type", Str("INT")),
                      Pair("foreign", Obj(<<Pair("table", Str("people")),
                                            Pair("column", Str("id"))>>))>>)
FieldE == Field(<<Pair("name", Str("e")), Pair("type", Str("VARCHAR")),
                  Pair("length", Num(255))>>)
FieldAge == Field(<<Pair("name", Str("age")), Pair("type", Str("BIGINT"))>>)
FieldNoName == Field(<<Pair("type", Str("INT"))>>)
FieldNoType == Field(<<Pair("name", Str("x"))>>)

FieldRole == Field(<<Pair("name", Str("role")), Pair("type", Str("VARCHAR")),
                     Pair("length", Num(20)), Pair("defaultValue", Str("user"))>>)
FieldScore == Field(<<Pair("name", Str("score")), Pair("type", Str("INT")),
                      Pair("defaultValue", Num(5))>>)
FieldVisits == Field(<<Pair("name", Str("visits")), Pair("type", Str("INT")),
                       Pair("defaultValue", Num(0))>>)
FieldActive == Field(<<Pair("name", Str("active")), Pair("type", Str("BOOLEAN")),
                       Pair("defaultValue", Bool(FALSE))>>)
FieldKind == Field(<<Pair("name", Str("kind")), Pair("type", Str("ENUM")),
                     Pair("defaultValue", Str("a"))>>)

CreateFields ==
    { Arr(<<FieldId, FieldOwner>>), Arr(<<FieldOwner, FieldId>>),
      Arr(<<FieldId, FieldNoType>>), Arr(<<FieldNoName, FieldId>>),
      Arr(<<FieldRole, FieldScore>>), Arr(<<FieldVisits, FieldActive>>),
      Arr(<<FieldId, FieldKind>>) }
ColumnFields == { FieldE, FieldAge, FieldNoName, FieldNoType, Arr(<<FieldE>>) }
ColumnNames == { "age", "e", "phone" }

NextSchema ==
    \/ \E n \in TableNames : Table(1, n)
    \/ \E fields \in CreateFields : Create(1, fields)
    \/ \E field \in ColumnFields : ColumnsAdd(1, field)
    \/ \E field \in ColumnFields : ColumnsEdit(1, field)
    \/ \E name \in ColumnNames : ColumnsDrop(1, name)
    \/ ColumnsGet(1)
    \/ ColumnsDelete(1, Strs(<<"e">>))
    \/ \E c \in Calls : ColumnsQueryDone(c)
    \/ \E c \in Calls : QueryDone(c)
    \/ \E c \in Calls : AdminPoolOpened(c)
    \/ \E c \in Calls : Connected(c)
    \/ \E c \in Calls : DatabaseCreated(c)
    \/ \E c \in Calls : TargetPoolOpened(c)
    \/ \E c \in Calls : RetryDone(c)
    \/ DropDatabase

SpecSchema == InitExec /\ [][NextSchema]_vars

(***************************************************************************)
(* Specification of the rendering methods called by the program itself:    *)
(* one builder, conditions, order, pagination and an aggregate, with       *)
(* buildQuery() and buildConditions() called in between                    *)
(***************************************************************************)
\* mutant: rendering consumes the pagination
Rendered_ClearsLimit(q) == [q EXCEPT !.limitValue = Null]

\* the builder after buildQuery() or buildConditions() has returned: both
\* read this.query, joins, conditions, _groupBy, limitValue, pageValue and
\* _orderBy into locals, map and join, and assign to no field of `this`
Rendered(q) == q

\* builder.buildQuery() called by the program; the string returned is kept
BuildQuery(b) ==
    /\ tq[b].exists
    /\ Chained(b, Rendered(tq[b]), 1)
    /\ Record(b, Call("buildQuery", "", Undefined, Str(buildQuery(tq[b]))), <<>>)

\* builder.buildConditions() called by the program
BuildConditions(b) ==
    /\ tq[b].exists
    /\ Chained(b, Rendered(tq[b]), 1)
    /\ Record(b, Call("buildConditions", "", Undefined, Str(buildConditions(tq[b]))), <<>>)

NextRender ==
    \/ \E n \in TableNames : Table(1, n)
    \/ \E c \in WhereArgs : Where(1, c)
    \/ \E s \in Scripts(1) : WhereGroup(1, s)
    \/ OrderBy(1, "name", "ASC")
    \/ \E n \in LimitValues : Limit(1, n)
    \/ \E n \in PageValues : Page(1, n)
    \/ Count(1, "*")
    \/ BuildQuery(1)
    \/ BuildConditions(1)

SpecRender == Init /\ [][NextRender]_vars

(***************************************************************************)
(* Specification of a reused builder: one builder on which conditions,     *)
(* order and pagination are added between terminal calls, over a server    *)
(* whose target database may be missing                                    *)
(***************************************************************************)
\* orderBy('name', 'ASC') chained on a builder that has no order yet
FirstOrder(b) ==
    /\ tq[b].exists
    /\ Len(tq[b]._orderBy) = 0
    /\ OrderBy(b, "name", "ASC")

\* whereGroup(callback) chained on a builder that has no condition yet
FirstGroup(b, script) ==
    /\ tq[b].exists
    /\ Len(tq[b].conditions) = 0
    /\ WhereGroup(b, script)

\* callbacks that add nothing, and that add one condition
GroupScripts == { <<>>, <<Call("where", "age", Str(">"), Num(18))>> }

NextReuse ==
    \/ \E n \in TableNames : Table(1, n)
    \/ FirstWhere(1)
    \/ \E s \in GroupScripts : FirstGroup(1, s)
    \/ FirstOrder(1)
    \/ Get(1)
    \/ First(1)
    \/ \E data \in UpdateData : Update(1, data)
    \/ Delete(1)
    \/ \E c \in Calls : QueryDone(c)
    \/ \E c \in Calls : AdminPoolOpened(c)
    \/ \E c \in Calls : Connected(c)
    \/ \E c \in Calls : DatabaseCreated(c)
    \/ \E c \in Calls : TargetPoolOpened(c)
    \/ \E c \in Calls : RetryDone(c)
    \/ DropDatabase

SpecReuse == InitExec /\ [][NextReuse]_vars

(***************************************************************************)
(* Specification of ordering under projections: one builder, select with   *)
(* field names of several shapes, orderBy, distinct and limit; no          *)
(* aggregate method is ever called                                         *)
(***************************************************************************)
OrderFieldLists == { <<"name">>, <<"id", "COUNT(age) AS n">>, <<"COUNT(age) AS n">>, <<"MAX_SPEED">> }
OrderColumns == {"name", "age"}

NextOrder ==
    \/ \E n \in TableNames : Table(1, n)
    \/ \E f \in OrderFieldLists : Select(1, f)
    \/ \E column \in OrderColumns, d \in {"ASC", "desc"} : OrderBy(1, column, d)
    \/ Distinct(1)
    \/ Limit(1, MaxLimit)

SpecOrder == Init /\ [][NextOrder]_vars

(***************************************************************************)
(* Properties of the condition model                                       *)
(***************************************************************************)
OnlyWhereCalls(h) == \A i \in 1..Len(h) : h[i].m \in {"where", "orWhere"}

\* the predicate text a where/orWhere call asks for
ExpectedPredicate(e) ==
    e.column \o " " \o (IF e.operator.t = "undefined" THEN "=" ELSE e.operator.s) \o " "
             \o (IF e.value.t = "string" THEN "'" \o e.value.s \o "'" ELSE ToString(e.value.n))

\* the text a sequence of where/orWhere calls asks for: predicates in call
\* order, nothing before the first, one combinator keyword before each later
ExpectedWhere(h) ==
    Join([i \in 1..Len(h) |->
            (IF i = 1 THEN "" ELSE IF h[i].m = "orWhere" THEN " OR " ELSE " AND ")
               \o ExpectedPredicate(h[i])], "")

\* C1: for every sequence of where/orWhere calls on a fresh builder,
\* buildConditions() renders the predicates in call order, with no AND/OR
\* keyword before the first predicate and exactly one combinator keyword
\* before each later predicate: OR for orWhere, AND for where.
C1_ConditionsRenderInCallOrder ==
    \A b \in Builders :
        (tq[b].exists /\ OnlyWhereCalls(hist[b]))
            => buildConditions(tq[b]) = ExpectedWhere(hist[b])

C1_Witness ==
    \E b \in Builders :
        /\ tq[b].exists
        /\ Len(hist[b]) = 3
        /\ hist[b][1].m = "where" /\ hist[b][2].m = "orWhere" /\ hist[b][3].m = "where"
        /\ buildConditions(tq[b]) = "age > 18 OR name = 'Alice' AND age > 18"

RECURSIVE ExpectedTypes(_, _)
\* the combinators the appended nodes must carry after the calls h, when an
\* or() is pending (pendingOr) before them: or() arms OR for the next node
\* appended by where / whereGroup / whereBetween / whereIn / whereNull /
\* whereNotNull, that append disarms it, and() disarms it explicitly; an
\* orWhere node is OR and is not one of those appends.
ExpectedTypes(h, pendingOr) ==
    IF Len(h) = 0 THEN <<>>
    ELSE LET e == Head(h)
         IN  CASE e.m = "or" -> ExpectedTypes(Tail(h), TRUE)
               [] e.m = "and" -> ExpectedTypes(Tail(h), FALSE)
               [] e.m = "orWhere" -> <<"OR">> \o ExpectedTypes(Tail(h), pendingOr)
               [] e.appended ->
                    <<IF pendingOr THEN "OR" ELSE "AND">> \o ExpectedTypes(Tail(h), FALSE)
               [] OTHER -> ExpectedTypes(Tail(h), pendingOr)

NodeTypes(q) == [i \in 1..Len(q.conditions) |-> q.conditions[i].type]

\* C5: or() makes the pending combinator OR for exactly one appended node:
\* the next node appended by where / whereGroup / whereBetween / whereIn /
\* whereNull / whereNotNull carries OR and the node appended after it (no
\* or() in between) carries AND; without or() every such node carries AND.
\* (An and() between the or() and the append withdraws the pending OR.)
C5_OrHoldsForOneAppend ==
    \A b \in Builders :
        tq[b].exists => NodeTypes(tq[b]) = ExpectedTypes(hist[b], FALSE)

C5_Witness ==
    \E b \in Builders :
        /\ tq[b].exists
        /\ Len(hist[b]) = 4
        /\ hist[b][1].m = "whereNull"
        /\ hist[b][2].m = "or"
        /\ hist[b][3].m = "whereBetween" /\ hist[b][3].appended
        /\ hist[b][4].m = "whereGroup"
        /\ NodeTypes(tq[b]) = <<"AND", "OR", "AND">>

\* C6 (as claimed): from every reachable builder state orWhere(c, op, v)
\* leaves the builder exactly as or().where(c, op, v) does: one more node
\* with combinator OR and the pending combinator at AND.
C6_OrWhereIsOrThenWhere ==
    \A b \in Builders :
        tq[b].exists =>
            \A c \in WhereArgs :
                orWhere(tq[b], c.column, c.operator, c.value)
                    = where(or(tq[b]), c.column, c.operator, c.value)

HistoryEntries == {<<b, i>> \in Builders \X (1..MaxChain) : tq[b].exists /\ i <= Len(hist[b])}

\* C12 (as claimed): whereBetween given a value list whose length is not
\* exactly 2, and whereIn given an empty list or a non-list, append no node,
\* raise no error and leave the whole builder state unchanged.
C12_MalformedRangesIgnored ==
    \A x \in HistoryEntries :
        LET e == hist[x[1]][x[2]]
        IN  (\/ e.m = "whereBetween" /\ e.value.t = "array" /\ Len(e.value.a) # 2
             \/ e.m = "whereIn" /\ (e.value.t # "array" \/ Len(e.value.a) = 0))
                => (e.same /\ e.error = "")

\* the literal a bound asks for: a string in single quotes, a number as is
ExpectedLiteral(v) == IF v.t = "string" THEN "'" \o v.s \o "'" ELSE ToString(v.n)

\* C13: whereBetween(col, [a, b]) with a and b both defined appends exactly
\* one node, which renders as 'col BETWEEN a AND b' with string bounds in
\* single quotes; called with a list of one value it leaves the condition
\* list unchanged.
C13_BetweenAppendsOneRange ==
    \A x \in HistoryEntries :
        LET e == hist[x[1]][x[2]]
            q == tq[x[1]]
        IN  (e.m = "whereBetween" /\ e.value.t = "array") =>
               /\ (Len(e.value.a) = 2 /\ e.value.a[1].t # "undefined" /\ e.value.a[2].t # "undefined")
                     => /\ e.added = 1 /\ e.kept
                        /\ ~q.conditions[e.at].isGroup
                        /\ ConditionStr(q.conditions[e.at])
                              = e.column \o " BETWEEN " \o ExpectedLiteral(e.value.a[1])
                                         \o " AND " \o ExpectedLiteral(e.value.a[2])
               /\ Len(e.value.a) = 1 => (e.added = 0 /\ e.kept)

C13_Witness ==
    \E b \in Builders :
        /\ tq[b].exists /\ Len(hist[b]) = 3
        /\ hist[b][1].m = "whereBetween" /\ hist[b][1].value = Arr(<<Str("a"), Str("f")>>)
        /\ hist[b][2].m = "whereBetween" /\ hist[b][2].value = Arr(<<Num(1)>>)
        /\ hist[b][3].m = "whereBetween" /\ hist[b][3].value = Arr(<<Num(1), Num(5)>>)
        /\ buildConditions(tq[b]) = "age BETWEEN 'a' AND 'f' AND age BETWEEN 1 AND 5"

\* C14: whereGroup(fn) appends exactly one group node to the outer builder
\* whatever fn adds to the nested builder: the node carries the outer
\* pending combinator, the outer pending combinator is AND afterwards, the
\* node renders as the nested conditions in parentheses, and nothing else
\* of the outer builder changes, whatever fn calls (or() included).
C14_GroupIsOneNode ==
    \A x \in HistoryEntries :
        LET e == hist[x[1]][x[2]]
            q == tq[x[1]]
            nested == ApplyScript(NewTableQuery(q.tableName, 0), e.script)
        IN  e.m = "whereGroup" =>
               /\ e.added = 1 /\ e.kept /\ e.error = ""
               /\ e.after = "AND"
               /\ q.conditions[e.at].isGroup
               /\ q.conditions[e.at].type = e.before
               /\ ConditionStr(q.conditions[e.at]) = "(" \o buildConditions(nested) \o ")"

C14_Witness ==
    \E b \in Builders :
        /\ tq[b].exists /\ Len(hist[b]) = 2
        /\ hist[b][1].m = "or"
        /\ hist[b][2].m = "whereGroup" /\ Len(hist[b][2].script) = 2
        /\ hist[b][2].script[2].m = "or"
        /\ hist[b][2].before = "OR" /\ tq[b].nextType = "AND"
        /\ buildConditions(tq[b]) = "(age > 18)"

(***************************************************************************)
(* Properties of the statement builder                                     *)
(***************************************************************************)
\* C7 (as claimed): whenever the active base clause was set by count / sum /
\* avg / max / min, buildQuery renders no ORDER BY clause, whatever other
\* builder methods were called before or after the aggregate call.
C7_NoOrderByOnAggregate ==
    \A b \in Builders :
        (tq[b].exists /\ baseBy[b] = "aggregate")
            => ~Includes(buildQuery(tq[b]), " ORDER BY ")

\* C8 (as claimed): distinct() is idempotent: from every reachable builder
\* state, calling it twice leaves the same builder state, and the same
\* rendered SQL, as calling it once.
C8_DistinctIdempotent ==
    \A b \in Builders :
        tq[b].exists =>
            /\ distinct(distinct(tq[b])) = distinct(tq[b])
            /\ buildQuery(distinct(distinct(tq[b]))) = buildQuery(distinct(tq[b]))

\* C9 (as claimed): with limit n and page p both set buildQuery renders
\* ' LIMIT n OFFSET (p-1)*n' for every n and p; with page set and limit
\* never set it renders no OFFSET clause.
C9_LimitPageOffset ==
    \A b \in Builders :
        tq[b].exists =>
            LET q == tq[b]
            IN  /\ (IsSet(q.limitValue) /\ IsSet(q.pageValue))
                      => Includes(buildQuery(q),
                                  " LIMIT " \o ToString(q.limitValue.n) \o " OFFSET "
                                     \o ToString((q.pageValue.n - 1) * q.limitValue.n))
                /\ (~IsSet(q.limitValue) /\ IsSet(q.pageValue))
                      => ~Includes(buildQuery(q), " OFFSET ")

\* the field list of a select call, joined as the projection asks
ExpectedFields(e) == Join([i \in 1..Len(e.value.a) |-> e.value.a[i].s], ", ")

DistinctCalledBefore(b, i) == \E j \in 1..(i - 1) : hist[b][j].m = "distinct"

\* C15: after distinct(), select(fields) with a non-empty list makes the
\* base clause 'SELECT DISTINCT <fields joined by ", "> FROM "<table>"';
\* select with an empty list leaves the base clause unchanged.
C15_SelectKeepsDistinct ==
    \A x \in HistoryEntries :
        LET e == hist[x[1]][x[2]]
        IN  e.m = "select" =>
              /\ (Len(e.value.a) > 0 /\ DistinctCalledBefore(x[1], x[2]))
                    => e.base = "SELECT DISTINCT " \o ExpectedFields(e)
                                   \o " FROM \"" \o tq[x[1]].tableName \o "\""
              /\ Len(e.value.a) = 0 => e.base = e.baseBefore

C15_Witness ==
    \E b \in Builders :
        /\ tq[b].exists /\ Len(hist[b]) = 3
        /\ hist[b][1].m = "distinct"
        /\ hist[b][2].m = "select" /\ hist[b][2].value = Strs(<<"name">>)
        /\ hist[b][3].m = "select" /\ hist[b][3].value = Strs(<<>>)
        /\ buildQuery(tq[b]) = "SELECT DISTINCT name FROM \"users\""

Aggregates == {"count", "sum", "avg", "max", "min"}

\* the base clause a select(non-empty) or aggregate call asks for, given
\* whether distinct() came before it
ExpectedBase(e, tableName, distinctBefore) ==
    IF e.m = "select"
    THEN "SELECT " \o (IF distinctBefore THEN "DISTINCT " ELSE "") \o ExpectedFields(e)
            \o " FROM \"" \o tableName \o "\""
    ELSE "SELECT " \o ToUpperCase(e.m) \o "(" \o e.column \o ") AS " \o e.m
            \o " FROM \"" \o tableName \o "\""

SetsBase(e) == e.m \in Aggregates \/ (e.m = "select" /\ Len(e.value.a) > 0)

\* C16: select(non-empty fields) and count / sum / avg / max / min each
\* overwrite the base clause entirely: the base clause after the call is the
\* one the call produces, whatever it was before, and after a sequence of
\* such calls the builder's base clause is that of the last of them; for an
\* aggregate it is 'SELECT <FN>(<column>) AS <fn> FROM "<table>"'.
C16_LastBaseCallWins ==
    \A x \in HistoryEntries :
        LET b == x[1]
            e == hist[b][x[2]]
        IN  SetsBase(e) =>
              /\ e.base = ExpectedBase(e, tq[b].tableName, DistinctCalledBefore(b, x[2]))
              /\ (\A j \in (x[2] + 1)..Len(hist[b]) :
                      ~SetsBase(hist[b][j]) /\ hist[b][j].m # "distinct")
                    => tq[b].query = e.base

C16_Witness ==
    \E b \in Builders :
        /\ tq[b].exists /\ Len(hist[b]) = 4
        /\ hist[b][1].m = "select" /\ Len(hist[b][1].value.a) = 2
        /\ hist[b][2].m = "count"
        /\ hist[b][3].m = "select" /\ hist[b][3].value = Strs(<<"name">>)
        /\ hist[b][4].m = "sum"
        /\ tq[b].query = "SELECT SUM(age) AS sum FROM \"users\""

\* the entries of h made by the methods ms that raised nothing
CallsOf(h, ms) == SelectSeq(h, LAMBDA e : e.m \in ms /\ e.error = "")

ExpectedJoin(e) ==
    (CASE e.m = "join" -> "JOIN" [] e.m = "leftJoin" -> "LEFT JOIN" [] OTHER -> "RIGHT JOIN")
       \o " \"" \o e.column \o "\" ON " \o e.value.a[1].s \o " " \o e.value.a[2].s
       \o " " \o e.value.a[3].s

\* the JOIN, GROUP BY and ORDER BY parts with their entries in call order
ExpectedJoins(h) ==
    LET js == CallsOf(h, {"join", "leftJoin", "rightJoin"})
    IN  IF Len(js) = 0 THEN ""
        ELSE " " \o Join([i \in 1..Len(js) |-> ExpectedJoin(js[i])], " ")
ExpectedGroupBy(h) ==
    LET gs == CallsOf(h, {"groupBy"})
    IN  IF Len(gs) = 0 THEN ""
        ELSE " GROUP BY " \o Join([i \in 1..Len(gs) |-> gs[i].column], ", ")
ExpectedOrderBy(h) ==
    LET os == CallsOf(h, {"orderBy"})
    IN  IF Len(os) = 0 THEN ""
        ELSE " ORDER BY " \o Join([i \in 1..Len(os) |->
                                      os[i].column \o " " \o ToUpperCase(os[i].value.s)], ", ")

\* C17: buildQuery renders base clause, JOINs, WHERE (only with
\* conditions), GROUP BY (only if any), LIMIT, OFFSET, ORDER BY in this
\* order, and the JOIN, GROUP BY and ORDER BY entries in the order of their
\* calls, whatever order the builder methods were chained in.
C17_FixedRenderingOrder ==
    \A b \in Builders :
        tq[b].exists =>
            LET q == tq[b]
                sql == buildQuery(q)
                front == q.query \o ExpectedJoins(hist[b])
                            \o (IF Len(q.conditions) > 0 THEN " WHERE " \o buildConditions(q) ELSE "")
                            \o ExpectedGroupBy(hist[b])
                            \o LimitClause(q) \o OffsetClause(q)
            IN  \/ sql = front \o ExpectedOrderBy(hist[b])
                \/ sql = front /\ IsAggregateQuery(q.query)

C17_Witness ==
    \E b \in Builders :
        /\ tq[b].exists /\ Len(hist[b]) = 4
        /\ hist[b][1].m = "orderBy" /\ hist[b][2].m = "limit"
        /\ hist[b][3].m = "where" /\ hist[b][4].m = "leftJoin"
        /\ buildQuery(tq[b])
              = "SELECT * FROM \"users\" LEFT JOIN \"orders\" ON users.id = orders.user_id"
                   \o " WHERE age > 18 LIMIT 2 ORDER BY name DESC"

(***************************************************************************)
(* Properties of the execution layer                                       *)
(***************************************************************************)
\* the number of times `call` handed sql to the driver
TimesSent(call, sql) == Cardinality({i \in 1..Len(call.sent) : call.sent[i].sql = sql})

EndsWith(s, suffix) ==
    Len(s) >= Len(suffix) /\ SubSeq(s, Len(s) - Len(suffix) + 1, Len(s)) = suffix

UpdatesAndDeletes ==
    {c \in 1..Len(calls) :
        \/ calls[c].kind = "delete"
        \/ calls[c].kind = "update" /\ calls[c].input.t = "object"}

\* C2: update(data) and delete() on a builder with no WHERE condition raise
\* and hand no statement to the pool; with at least one condition they hand
\* the builder's pool the UPDATE / DELETE carrying that WHERE clause (a
\* builder that was given no pool has nothing to execute on: the call fails
\* with the connection error, again with no statement sent).
C2_UpdateDeleteRequireWhere ==
    \A c \in UpdatesAndDeletes :
        LET call == calls[c]
            verb == IF call.kind = "update"
                    THEN "UPDATE \"" \o tq[call.b].tableName \o "\" SET "
                    ELSE "DELETE FROM \"" \o tq[call.b].tableName \o "\" WHERE "
        IN  IF call.nconds = 0
            THEN /\ call.outcome = "rejected"
                 /\ call.error = IF call.kind = "update" THEN UpdateNeedsWhere
                                 ELSE DeleteNeedsWhere
                 /\ call.sent = <<>>
            ELSE IF tq[call.b].conection = 0
            THEN call.error = NoConnection /\ call.sent = <<>>
            ELSE /\ Len(call.sent) >= 1
                 /\ call.sent[1].pool \in 1..Len(pools)
                 /\ StartsWith(call.sent[1].sql, verb)
                 /\ EndsWith(call.sent[1].sql, " WHERE " \o call.where \o " RETURNING *")
                 /\ call.where # ""
                 /\ call.error \notin {UpdateNeedsWhere, DeleteNeedsWhere}

C2_Witness ==
    \E c1, c2 \in 1..Len(calls) :
        /\ calls[c1].kind = "update" /\ calls[c1].input.t = "object"
        /\ calls[c1].nconds = 0 /\ calls[c1].outcome = "rejected"
        /\ calls[c2].kind = "delete" /\ calls[c2].nconds = 1
        /\ calls[c2].outcome = "resolved"
        /\ calls[c2].sent = <<Statement(1, "DELETE FROM \"users\" WHERE age > 18 RETURNING *")>>

BuilderCalls == {c \in 1..Len(calls) : IsBuilderCall(c)}

\* C3: a terminal call whose statement fails with database-missing issues
\* one CREATE DATABASE and re-runs the statement once; when the re-run or a
\* recovery step fails, database-missing again included, that error is the
\* one the execution layer raises and nothing more is attempted: no
\* statement enters recovery twice, has CREATE DATABASE issued twice or is
\* run a third time.  (For insert, each row's statement is one execution.)
C3_OneRecoveryPerCall ==
    \A c \in BuilderCalls :
        LET call == calls[c]
        IN  /\ call.recoveries <= 1
            /\ TimesSent(call, CreateDatabase) <= 1
            /\ TimesSent(call, call.sql) <= 2
            /\ TimesSent(call, call.sql) = 2 => TimesSent(call, CreateDatabase) = 1
            /\ (call.recoveries = 1 /\ call.outcome = "resolved")
                  => (TimesSent(call, call.sql) = 2 /\ call.failures = 1)
            /\ call.failures <= 2
            /\ call.failures = 2 => (call.pc = "done" /\ call.outcome = "rejected")
            /\ call.outcome = "rejected" /\ call.failures > 0 => call.raised = call.lastFailure

C3_Witness ==
    \E c1, c2 \in BuilderCalls :
        /\ calls[c1].recoveries = 1 /\ calls[c1].outcome = "resolved"
        /\ TimesSent(calls[c1], calls[c1].sql) = 2
        /\ TimesSent(calls[c1], CreateDatabase) = 1
        /\ calls[c2].recoveries = 1 /\ calls[c2].outcome = "rejected"
        /\ calls[c2].error = DatabaseMissing
        /\ TimesSent(calls[c2], calls[c2].sql) = 2
        /\ TimesSent(calls[c2], CreateDatabase) = 1

RawQueryCalls == {c \in 1..Len(calls) : calls[c].kind = "query" /\ calls[c].pc = "done"}

\* a finished raw query answered with the structured result
Answered(call) ==
    /\ call.outcome = "resolved"
    /\ call.result.status \in {"success", "error"}
    /\ call.failures > 0 => (call.result.status = "error" /\ call.result.data = "null")
    /\ call.failures = 0 => (call.result.status = "success" /\ call.result.data # "null")

\* C4 (as claimed): Postgres.query never raises: for every input it resolves
\* to a {status, message, data} result, with status 'error' and data null on
\* any failure.
C4_QueryNeverRaises == \A c \in RawQueryCalls : Answered(calls[c])

\* C4 (amended): for every string input Postgres.query resolves to a
\* {status, message, data} result, with status 'error' and data null on any
\* failure; for an input that is not a string it raises.
C4_QueryAnswersStrings ==
    \A c \in RawQueryCalls :
        IF calls[c].input.t = "string"
        THEN Answered(calls[c])
        ELSE calls[c].outcome = "rejected" /\ calls[c].error = QueryNeedsString

C4_Witness ==
    \E c \in RawQueryCalls :
        /\ calls[c].input = Str("SELECT 1; SELECT 2;")
        /\ Len(calls[c].sent) = 2
        /\ calls[c].lastFailure = SqlError
        /\ calls[c].outcome = "resolved"
        /\ calls[c].result = Failure(SqlError)

\* a builder call has closed the shared pool and opened the target pool anew
Recovered(call) == call.kind # "query" /\ TimesSent(call, call.sql) = 2

\* C10 (as claimed): once a recovery triggered through a builder has closed
\* and replaced the pool, the singleton's pool (the one table() hands to new
\* builders and the raw-query entry point uses) is an open pool.
C10_SingletonPoolReplaced ==
    (\E c \in 1..Len(calls) : Recovered(calls[c]))
        => (pool # 0 /\ ~pools[pool].ending)

(***************************************************************************)
(* Properties of insert, drop and the columns() handle                     *)
(***************************************************************************)
InsertCalls == {c \in 1..Len(calls) : calls[c].kind = "insert"}

\* rows is a non-empty list of plain key-value objects
WellFormedRows(data) ==
    /\ data.t = "array"
    /\ Len(data.a) > 0
    /\ \A i \in 1..Len(data.a) : data.a[i].t = "object"

\* every statement the call has handed to a pool, in order
AllSent(call) == call.prior \o call.sent

\* C11 (as claimed): insert(rows) raises and executes no statement whenever
\* rows is not a non-empty list of plain objects: not a list, an empty
\* list, or a list with an element that is not a plain key-value object.
C11_InsertRejectsMalformedRows ==
    \A c \in InsertCalls :
        ~WellFormedRows(calls[c].input)
            => (calls[c].outcome = "rejected" /\ AllSent(calls[c]) = <<>>)

RECURSIVE Runs(_)
\* a sequence with each run of equal consecutive elements reduced to one
Runs(seq) ==
    IF Len(seq) <= 1 THEN seq
    ELSE IF seq[1] = seq[2] THEN Runs(Tail(seq))
    ELSE <<seq[1]>> \o Runs(Tail(seq))

\* the INSERT statements the call has sent, a re-run after a recovery
\* counted with the run it repeats
InsertsSent(call) ==
    Runs(SelectSeq([i \in 1..Len(AllSent(call)) |-> AllSent(call)[i].sql],
                   LAMBDA sql : sql # CreateDatabase))

ExpectedInsert(tableName, row) ==
    "INSERT INTO \"" \o tableName \o "\" (\"name\", \"age\") VALUES ('"
        \o row.a[1].value.s \o "', "
        \o (IF row.a[2].value.t = "null" THEN "NULL" ELSE ToString(row.a[2].value.n))
        \o ") RETURNING *"

\* C18: insert(rows) sends one INSERT per row in list order, each only after
\* the previous one has completed; when the INSERT of row k fails the
\* INSERTs of the rows before k have completed and nothing undoes them, no
\* INSERT is sent for a row after k, and insert raises.
C18_InsertRowByRow ==
    \A c \in InsertCalls :
        LET call == calls[c]
            rows == call.input.a
        IN  WellFormedRows(call.input) =>
              /\ call.idx <= Len(rows)
              /\ InsertsSent(call)
                    = [i \in 1..Len(InsertsSent(call)) |->
                          ExpectedInsert(tq[call.b].tableName, rows[i])]
              /\ Len(InsertsSent(call)) \in {call.idx - 1, call.idx}
              /\ Len(call.results) \in {call.idx - 1, call.idx}
              /\ Len(InsertsSent(call)) >= 1 => Len(call.results) >= Len(InsertsSent(call)) - 1
              /\ call.outcome = "pending" => Len(call.results) = call.idx - 1
              /\ call.outcome = "resolved"
                    => (Len(call.results) = Len(rows) /\ Len(InsertsSent(call)) = Len(rows))
              /\ call.outcome = "rejected"
                    => (Len(call.results) = call.idx - 1 /\ call.raised # NoError)

C18_Witness ==
    \E c \in InsertCalls :
        /\ calls[c].input = Arr(<<Row1, Row2>>)
        /\ calls[c].outcome = "rejected"
        /\ calls[c].idx = 2 /\ calls[c].results = <<"row">>
        /\ calls[c].lastFailure = SqlError
        /\ Len(AllSent(calls[c])) = 2

ColumnsCalls == {c \in 1..Len(calls) : IsColumnsCall(calls[c])}

\* C19 (as claimed): a schema operation on a columns() handle whose
\* statement fails with database-missing goes through the recovery: the
\* database is created and the statement is re-run once.
C19_ColumnsRecover ==
    \A c \in ColumnsCalls :
        (calls[c].pc = "done" /\ IsDatabaseMissing(calls[c].lastFailure))
            => /\ TimesSent(calls[c], CreateDatabase) = 1
               /\ TimesSent(calls[c], calls[c].sql) = 2

\* C20 (as claimed): when a statement fails with an error other than
\* database-missing, the terminal builder operation that sent it raises
\* that driver error unchanged: same message, same code.
C20_DriverErrorUnchanged ==
    \A c \in BuilderCalls :
        (/\ calls[c].outcome = "rejected"
         /\ calls[c].failures = 1 /\ calls[c].recoveries = 0
         /\ ~IsDatabaseMissing(calls[c].lastFailure))
            => calls[c].error = calls[c].lastFailure

(***************************************************************************)
(* Properties of the recovery's frame and of find                          *)
(***************************************************************************)
\* the calls on builder b, other than c, that opened a pool
OthersOpening(c) ==
    {d \in BuilderCalls \ {c} :
        /\ calls[d].b = calls[c].b
        /\ \E i \in 1..Len(calls[d].steps) : calls[d].steps[i].op = "open"}

\* C21: when the statement of a terminal builder call fails with an error
\* whose code is not 3D000, the call is over and has raised that error; the
\* statement was sent once, to the pool the builder held when the call was
\* made; the call ended no pool, opened none and sent no CREATE DATABASE;
\* and the builder still holds that pool unless another call on the same
\* builder has opened one.
C21_NoRecoveryForOtherErrors ==
    \A c \in BuilderCalls :
        LET call == calls[c]
        IN  (call.failures = 1 /\ call.lastFailure.code # "3D000")
                => /\ call.pc = "done" /\ call.outcome = "rejected"
                   /\ call.raised = call.lastFailure
                   /\ call.recoveries = 0
                   /\ call.steps = <<Step("query", call.handle)>>
                   /\ call.sent = <<Statement(call.handle, call.sql)>>
                   /\ TimesSent(call, CreateDatabase) = 0
                   /\ OthersOpening(c) = {} => tq[call.b].conection = call.handle
                   /\ Len(calls) = 1 => pools = <<NewPool("target")>>

C21_Witness ==
    \E c \in BuilderCalls :
        /\ calls[c].kind = "update"
        /\ calls[c].lastFailure = SqlError /\ calls[c].failures = 1
        /\ calls[c].outcome = "rejected" /\ calls[c].error = SqlError
        /\ calls[c].steps = <<Step("query", 1)>>
        /\ tq[calls[c].b].conection = 1
        /\ pools = <<NewPool("target")>>

FindCalls == {c \in 1..Len(calls) : calls[c].kind = "find"}
FirstCalls == {c \in 1..Len(calls) : calls[c].kind = "first"}

\* C22: find(value, column) adds exactly one node to the condition list,
\* the comparison column = value carrying the combinator that was pending,
\* resets the pending combinator to AND and changes nothing else of the
\* builder; its statement is the one first() sends from a builder with the
\* same conditions, SELECT ... WHERE <conditions>; and when it resolves it
\* returns the first row, or null when the row set is empty.
C22_FindIsWhereThenFirst ==
    /\ \A x \in HistoryEntries :
          LET e == hist[x[1]][x[2]]
          IN  e.m = "find" =>
                 /\ e.added = 1 /\ e.kept /\ e.after = "AND"
                 /\ tq[x[1]].conditions[e.at] = Leaf(e.column, "=", e.value, e.before)
    /\ \A c \in FindCalls :
          LET call == calls[c]
          IN  /\ call.nconds >= 1
              /\ call.sql = "SELECT * FROM \"users\" WHERE " \o call.where
              /\ \A d \in FirstCalls :
                    (calls[d].nconds = call.nconds /\ calls[d].where = call.where)
                        => calls[d].sql = call.sql
              /\ call.outcome = "resolved"
                    => /\ call.sent[Len(call.sent)].sql = call.sql
                       /\ call.first = (IF call.rows = <<>> THEN "null" ELSE call.rows[1])

C22_Witness ==
    \E c, d \in FindCalls :
        /\ c < d /\ Len(hist[1]) = 3
        /\ hist[1][2].m = "or" /\ hist[1][3].m = "find" /\ hist[1][3].before = "OR"
        /\ calls[c].sql = "SELECT * FROM \"users\" WHERE id = 1"
        /\ calls[c].outcome = "resolved" /\ calls[c].rows = <<"row">> /\ calls[c].first = "row"
        /\ calls[d].sql = "SELECT * FROM \"users\" WHERE id = 1 OR name = 'Al'"
        /\ calls[d].outcome = "resolved" /\ calls[d].rows = <<>> /\ calls[d].first = "null"

\* a find and a first made with the same conditions sent the same statement
C22_SameAsFirst ==
    \E c \in FindCalls, d \in FirstCalls :
        /\ calls[d].where = calls[c].where /\ calls[d].sql = calls[c].sql
        /\ calls[d].outcome = "resolved" /\ calls[c].outcome = "resolved"

(***************************************************************************)
(* Properties of the schema operations                                     *)
(***************************************************************************)
FieldCalls ==
    {c \in 1..Len(calls) : calls[c].kind \in {"create", "columns.add", "columns.edit"}}

\* a field given without a name or without a type
LacksNameOrType(field) ==
    field.t = "object"
        /\ (Prop(field, "name").t = "undefined" \/ Prop(field, "type").t = "undefined")

\* the fields a call was given: the list of create, the field of add and edit
GivenFields(call) == IF call.kind = "create" THEN call.input.a ELSE <<call.input>>

\* C23: create(fields), columns().add(field) and columns().edit(field) given
\* a field without name or without type raise 'Cada campo debe tener un
\* nombre y un tipo.' and send no statement, whatever the other fields of
\* the list are and wherever the incomplete field stands in it.
C23_IncompleteFieldIsFatal ==
    \A c \in FieldCalls :
        LET call == calls[c]
        IN  (\E i \in 1..Len(GivenFields(call)) : LacksNameOrType(GivenFields(call)[i]))
                => /\ call.pc = "done" /\ call.outcome = "rejected"
                   /\ call.error = FieldNeedsNameAndType
                   /\ AllSent(call) = <<>>

C23_Witness ==
    \E c, d \in FieldCalls :
        /\ calls[c].kind = "create" /\ calls[c].input = Arr(<<FieldId, FieldNoType>>)
        /\ calls[c].outcome = "rejected" /\ calls[c].sent = <<>>
        /\ calls[d].kind = "columns.edit" /\ calls[d].input = FieldNoName
        /\ calls[d].outcome = "rejected" /\ calls[d].sent = <<>>
        /\ columns = TableColumns

\* the call made in this step, if the step makes one
CallMade == Len(calls') = Len(calls) + 1
Made == calls'[Len(calls')]

\* C24 (as claimed): columns().drop(name) and columns().delete(names) send
\* an ALTER TABLE ... DROP COLUMN only for a column the table has when the
\* call is made; for any other name nothing is sent.
C24_DropOnlyExistingColumns ==
    [][(CallMade /\ Made.kind \in {"columns.drop", "columns.delete"} /\ Made.sent # <<>>)
            => ColumnOf(Made) \in columns]_vars

(***************************************************************************)
(* Properties of orderBy and of literal rendering                          *)
(***************************************************************************)
\* ASC or DESC written in any letter case, and what it is stored as
Accepted(direction) ==
    CASE direction \in {"ASC", "asc", "Asc"} -> "ASC"
      [] direction \in {"DESC", "desc", "Desc"} -> "DESC"
      [] OTHER -> ""

\* C25: orderBy(column, direction) with direction ASC or DESC in any letter
\* case adds one entry at the end of the order list, the column with the
\* direction in upper case, and changes nothing else of the builder; with
\* any other direction it throws and the builder is what it was.
C25_OrderByDirection ==
    \A x \in HistoryEntries :
        LET e == hist[x[1]][x[2]]
            q == tq[x[1]]
        IN  e.m = "orderBy" =>
               IF Accepted(e.value.s) # ""
               THEN /\ e.error = "" /\ e.ordered = 1 /\ e.orderKept
                    /\ q._orderBy[e.orderAt]
                          = [column |-> e.column, direction |-> Accepted(e.value.s)]
               ELSE /\ e.error # "" /\ e.same

C25_Witness ==
    /\ tq[1].exists /\ Len(hist[1]) = 3
    /\ hist[1][1].m = "orderBy" /\ hist[1][1].value = Str("Desc")
    /\ hist[1][2].m = "orderBy" /\ hist[1][2].value = Str("up") /\ hist[1][2].error # ""
    /\ hist[1][3].m = "orderBy" /\ hist[1][3].value = Str("ASC")
    /\ tq[1]._orderBy = << [column |-> "name", direction |-> "DESC"],
                           [column |-> "name", direction |-> "ASC"] >>
    /\ buildQuery(tq[1]) = "SELECT * FROM \"users\" ORDER BY name DESC, name ASC"

\* what the claim says a value is rendered as, value by value
Literal(v) ==
    CASE v = Str("O'Neil") -> "'O'Neil'"
      [] v = Str("a") -> "'a'"
      [] v = Num(5) -> "5"
      [] v = Bool(FALSE) -> "false"

\* C26: a string value is rendered as a quote, the value character for
\* character and a quote, a quote inside the value being neither escaped
\* nor doubled, and a number or boolean is rendered without quotes: in the
\* comparison of where, in the list of whereIn, in the bounds of
\* whereBetween, in the SET list of update and in the VALUES list of insert.
C26_LiteralsInlinedUnescaped ==
    /\ \A x \in HistoryEntries :
          LET e == hist[x[1]][x[2]]
              rendered == ConditionStr(tq[x[1]].conditions[e.at])
          IN  /\ e.m = "where" => rendered = "name = " \o Literal(e.value)
              /\ e.m = "whereIn"
                    => rendered = "id IN (" \o Literal(e.value.a[1]) \o ", "
                                            \o Literal(e.value.a[2]) \o ")"
              /\ e.m = "whereBetween"
                    => rendered = "age BETWEEN " \o Literal(e.value.a[1]) \o " AND "
                                                 \o Literal(e.value.a[2])
    /\ \A c \in 1..Len(calls) :
          LET call == calls[c]
          IN  /\ (call.kind = "update" /\ call.sent # <<>>)
                    => call.sent[1].sql
                          = "UPDATE \"users\" SET \"name\" = " \o Literal(call.input.a[1].value)
                               \o " WHERE " \o call.where \o " RETURNING *"
              /\ (call.kind = "insert" /\ call.sent # <<>>)
                    => call.sent[1].sql
                          = "INSERT INTO \"users\" (\"name\") VALUES ("
                               \o Literal(call.input.a[1].a[1].value) \o ") RETURNING *"

C26_Witness ==
    \E c, d \in 1..Len(calls) :
        /\ buildConditions(tq[1]) = "name = 'O'Neil' AND id IN (false, 'a')"
        /\ calls[c].kind = "update" /\ calls[c].outcome = "resolved"
        /\ calls[c].sent[1].sql
              = "UPDATE \"users\" SET \"name\" = 'O'Neil' WHERE name = 'O'Neil' AND id IN (false, 'a') RETURNING *"
        /\ calls[d].kind = "insert" /\ calls[d].outcome = "resolved"
        /\ calls[d].sent[1].sql = "INSERT INTO \"users\" (\"name\") VALUES ('O'Neil') RETURNING *"

\* a range with a quote in one bound and a number as the other
C26_BetweenReached ==
    /\ tq[1].exists
    /\ buildConditions(tq[1]) = "age BETWEEN 'O'Neil' AND 5"

(***************************************************************************)
(* Properties of the raw-query entry point                                 *)
(***************************************************************************)
\* the commands of each input, as the claim has them: the fragments between
\* the ';' that are not blank, in order
ExpectedCommands(sqlQuery) ==
    CASE sqlQuery = "SELECT 1" -> <<"SELECT 1">>
      [] sqlQuery = "SELECT 1; SELECT 2;" -> <<"SELECT 1", " SELECT 2">>
      [] sqlQuery = " ; " -> <<>>

StringQueries == {c \in 1..Len(calls) : calls[c].kind = "query" /\ calls[c].input.t = "string"}

\* C27: query(sqlQuery) sends the non-blank fragments of sqlQuery between
\* its ';', each followed by ';', one after another in order, a command
\* only once the one before has succeeded. When all have succeeded the
\* result has status 'success' and data is the row set of the command if
\* there was exactly one, the list of the row sets in command order
\* otherwise. When a command fails nothing more is sent and the result has
\* status 'error', data null and the driver's error message.
C27_RawQueryRunsCommandsInOrder ==
    \A c \in StringQueries :
        LET call == calls[c]
            cmds == ExpectedCommands(call.input.s)
        IN  /\ Len(call.sent) <= Len(cmds)
            /\ \A i \in 1..Len(call.sent) : call.sent[i].sql = cmds[i] \o ";"
            /\ call.pc # "done" => (Len(call.results) = Len(call.sent) - 1 /\ call.failures = 0)
            /\ (call.pc = "done" /\ call.failures = 0)
                  => /\ Len(call.sent) = Len(cmds) /\ Len(call.results) = Len(cmds)
                     /\ call.outcome = "resolved" /\ call.result.status = "success"
                     /\ IF Len(cmds) = 1
                        THEN call.result.data = "rows" /\ call.result.rows = call.results[1]
                        ELSE call.result.data = "list" /\ call.result.list = call.results
            /\ (call.pc = "done" /\ call.failures > 0 /\ call.sent # <<>>)
                  => /\ call.failures = 1
                     /\ Len(call.results) = Len(call.sent) - 1
                     /\ call.outcome = "resolved" /\ call.result.status = "error"
                     /\ call.result.data = "null"
                     /\ call.result.message = call.lastFailure.message

C27_Witness ==
    \E c, d \in StringQueries :
        /\ calls[c].input = Str("SELECT 1; SELECT 2;")
        /\ calls[c].result.status = "success" /\ calls[c].result.data = "list"
        /\ calls[c].result.list = << <<"row">>, <<>> >>
        /\ calls[d].input = Str("SELECT 1; SELECT 2;")
        /\ Len(calls[d].sent) = 1 /\ calls[d].result.status = "error"
        /\ calls[d].result.message = "syntax error"

\* one command: data is its row set
C27_OneCommand ==
    \E c \in StringQueries :
        /\ calls[c].input = Str("SELECT 1")
        /\ calls[c].result.status = "success" /\ calls[c].result.data = "rows"
        /\ calls[c].result.rows = <<"row">>

(***************************************************************************)
(* Properties of create and of the columns() handle                        *)
(***************************************************************************)
CreateCalls == {c \in 1..Len(calls) : calls[c].kind = "create"}

\* text p stands in s at position i
At(s, i, p) == i + Len(p) - 1 <= Len(s) /\ SubSeq(s, i, i + Len(p) - 1) = p

\* a column definition, which begins with the quoted name after ', ',
\* stands somewhere after a FOREIGN KEY clause
ColumnAfterForeignKey(sql) ==
    \E i, j \in 1..Len(sql) : i < j /\ At(sql, i, ", FOREIGN KEY (") /\ At(sql, j, ", \"")

\* C28 (as claimed): in the CREATE TABLE statement create(fields) sends, no
\* column definition follows a FOREIGN KEY clause, wherever in the list the
\* field with the foreign key stands.
C28_ForeignKeysAfterColumns ==
    \A c \in CreateCalls :
        calls[c].sent # <<>> => ~ColumnAfterForeignKey(calls[c].sent[1].sql)

\* a columns().add of column e has succeeded
AddedE ==
    \E c \in 1..Len(calls) :
        /\ calls[c].kind = "columns.add" /\ ColumnOf(calls[c]) = "e"
        /\ calls[c].outcome = "resolved"

\* C29 (as claimed, in its first half): once a columns().add of column e
\* has succeeded and the table has the column, columns().get() can be
\* called and answers, rather than raising, so that it can report e.
C29_GetAfterAddAnswers ==
    [][(CallMade /\ Made.kind = "columns.get" /\ AddedE /\ "e" \in columns)
            => Made.outcome # "rejected"]_vars

(***************************************************************************)
(* Properties of the recovery sequence                                     *)
(***************************************************************************)
\* what a call does from its first attempt to the end of the recovery
RecoverySteps == <<"query", "end", "open", "create", "end", "open", "query">>

\* how many steps a call has behind it when it waits at pc
StepsAt(pc) ==
    CASE pc = "query" -> 1
      [] pc = "end1" -> 2
      [] pc = "connect" -> 3
      [] pc = "createdb" -> 4
      [] pc = "end2" -> 5
      [] pc = "requery" -> 7

\* C30: a terminal builder call that meets database-missing goes through
\* these steps in this order, each begun only when the one before has
\* settled: the statement, end() of the builder's pool, a pool opened on the
\* administrative database, CREATE DATABASE on it, end() of the builder's
\* pool, a pool opened on the target database, the statement again. When
\* the call has gone through all of them and no other call on the same
\* builder has opened a pool, the pool ended first is the one the call
\* began with, the pool ended second is the administrative pool the call
\* opened, and the builder holds the target pool the call opened.
C30_RecoveryStepsInOrder ==
    \A c \in BuilderCalls :
        LET call == calls[c]
            n == Len(call.steps)
        IN  /\ n <= Len(RecoverySteps)
            /\ \A i \in 1..n : call.steps[i].op = RecoverySteps[i]
            /\ call.pc # "done" => n = StepsAt(call.pc)
            /\ n >= 2 => call.recoveries = 1
            /\ n >= 3 => pools[call.steps[3].pool].database = "admin"
            /\ n >= 4 => call.steps[4].pool = call.steps[3].pool
            /\ n >= 6 => pools[call.steps[6].pool].database = "target"
            /\ n = 7 => call.steps[7].pool = call.steps[6].pool
            /\ (n = 7 /\ OthersOpening(c) = {})
                  => /\ call.steps[1].pool = call.handle
                     /\ call.steps[2].pool = call.handle /\ pools[call.handle].ending
                     /\ call.steps[5].pool = call.steps[3].pool
                     /\ pools[call.steps[3].pool].ending
                     /\ tq[call.b].conection = call.steps[6].pool

C30_Witness ==
    \E c \in BuilderCalls :
        /\ calls[c].kind = "get" /\ calls[c].outcome = "resolved"
        /\ calls[c].steps = << Step("query", 1), Step("end", 1), Step("open", 2),
                               Step("create", 2), Step("end", 2), Step("open", 3),
                               Step("query", 3) >>
        /\ Len(pools) = 3
        /\ pools[1].ending /\ pools[2].database = "admin" /\ pools[2].ending
        /\ pools[3] = NewPool("target")
        /\ tq[calls[c].b].conection = 3

(***************************************************************************)
(* Properties of overlapping recoveries and of checked-out clients         *)
(***************************************************************************)
InsideRecovery(call) == call.pc \in {"end1", "connect", "createdb", "end2", "requery"}

C31_OnePoolOneRecovery ==
    \A c, d \in BuilderCalls :
        (c # d /\ calls[c].b # calls[d].b)
            => ~(InsideRecovery(calls[c]) /\ InsideRecovery(calls[d]))

\* C32: every client taken from a pool is given back before end() is called
\* on that pool: no pool is ending while a client is checked out of it.
C32_NoClientOutWhenPoolEnds ==
    \A p \in 1..Len(pools) : pools[p].ending => pools[p].out = 0

\* what the recovery leaves behind when it succeeds: the administrative
\* pool has been ended and its client is still checked out
C32_ClientNeverReleased ==
    \A c \in BuilderCalls :
        \A i \in 1..Len(calls[c].steps) :
            calls[c].steps[i].op = "create" => pools[calls[c].steps[i].pool].out >= 1

(***************************************************************************)
(* Properties of rendering and of reused builders                          *)
(***************************************************************************)
RenderCalls == {"buildQuery", "buildConditions"}

C33_ConditionsTwice ==
    /\ Len(hist[1]) = 3
    /\ hist[1][1].m = "whereGroup"
    /\ hist[1][2].m = "buildConditions" /\ hist[1][3].m = "buildConditions"
    /\ hist[1][3].value = Str("(age > 18)")

\* what a builder renders its statement from
Settings(q) ==
    IF q.exists
    THEN <<q.conditions, q.joins, q._orderBy, q._groupBy, q.limitValue, q.pageValue, q.query>>
    ELSE <<>>

TerminalCalls == {c \in BuilderCalls : calls[c].kind \in {"get", "first", "update", "delete"}}

\* C34: no step of get, first, update or delete -- the call itself, the
\* settling of its statement, a step of the recovery -- changes the
\* condition list, joins, order list, group-by list, limit, page or base
\* clause of any builder.
C34_TerminalsKeepBuilder ==
    [][calls' # calls => \A b \in Builders : Settings(tq'[b]) = Settings(tq[b])]_vars

\* a later terminal call on the same builder still renders the conditions
\* an earlier one rendered
C34_ReusedBuilderKeepsConditions ==
    \A c, d \in TerminalCalls :
        (c < d /\ calls[c].b = calls[d].b)
            => /\ calls[d].nconds >= calls[c].nconds
               /\ StartsWith(calls[d].where, calls[c].where)

C34_Witness ==
    \E c, d \in TerminalCalls :
        /\ c < d /\ calls[c].b = 1 /\ calls[d].b = 1
        /\ calls[c].kind = "update" /\ calls[c].where = "age > 18"
        /\ calls[c].recoveries = 1 /\ calls[c].outcome = "resolved"
        /\ calls[d].kind = "first" /\ calls[d].pc = "done"
        /\ calls[d].sent[1].sql = "SELECT * FROM \"users\" WHERE age > 18 ORDER BY name ASC"
        /\ Len(tq[1].conditions) = 1 /\ Len(tq[1]._orderBy) = 1
        /\ tq[1].conection = 3

(***************************************************************************)
(* Properties of the WHERE-required guard on group nodes                   *)
(***************************************************************************)
\* the rendered conditions hold a comparison, a range, a list or a null test
HasPredicate(whereClauses) ==
    \E op \in {" = ", " > ", " BETWEEN ", " IN (", " IS NULL", " IS NOT NULL"} :
        Includes(whereClauses, op)

\* C35: every update or delete that sent a statement rendered a WHERE
\* clause holding at least one predicate; a builder whose only node is a
\* group with no condition in it is refused.
C35_WhereHasPredicate ==
    \A c \in BuilderCalls :
        (calls[c].kind \in {"update", "delete"} /\ Len(calls[c].sent) > 0)
            => HasPredicate(calls[c].where)

\* what is sent for a group whose callback added nothing
C35_EmptyGroupPassesGuard ==
    \A c \in BuilderCalls :
        (calls[c].kind = "delete" /\ calls[c].where = "()")
            => /\ calls[c].error # DeleteNeedsWhere
               /\ calls[c].sql = "DELETE FROM \"users\" WHERE () RETURNING *"
               /\ tq[calls[c].b].conection # 0 => calls[c].sent[1].sql = calls[c].sql

(***************************************************************************)
(* Properties of the DISTINCT flag, of ORDER BY without aggregates and of  *)
(* OFFSET                                                                  *)
(***************************************************************************)
\* C36: in every builder state the flag set by distinct() and the base
\* clause agree: the base clause starts with 'SELECT DISTINCT ' exactly
\* when distinct() has been called, whatever select or aggregate call
\* came later.
C36_DistinctFlagMatchesBase ==
    \A b \in Builders :
        tq[b].exists
            => (tq[b]._distinct <=> StartsWith(tq[b].query, "SELECT DISTINCT "))

\* the half that holds: a base clause that starts with 'SELECT DISTINCT '
\* belongs to a builder on which distinct() was called
C36_NoDistinctWithoutCall ==
    \A b \in Builders :
        (tq[b].exists /\ StartsWith(tq[b].query, "SELECT DISTINCT ")) => tq[b]._distinct

\* and the base clause loses DISTINCT only to an aggregate call
C36_OnlyAggregatesDropDistinct ==
    \A b \in Builders :
        (tq[b].exists /\ tq[b]._distinct /\ ~StartsWith(tq[b].query, "SELECT DISTINCT "))
            => baseBy[b] = "aggregate"
\* C37: when no aggregate method was called, the rendered statement ends
\* with the ORDER BY clause made of every orderBy call, in the order of the
\* calls, whatever field names select was given.
C37_OrderByAlwaysRendered ==
    \A b \in Builders :
        (tq[b].exists /\ Len(CallsOf(hist[b], Aggregates)) = 0)
            => EndsWith(buildQuery(tq[b]), ExpectedOrderBy(hist[b]))

\* what holds instead: the clause is rendered in call order unless the
\* text of the base clause starts as an aggregate's does
C37_OrderByUnlessAggregatePrefix ==
    \A b \in Builders :
        (tq[b].exists /\ Len(CallsOf(hist[b], Aggregates)) = 0)
            => IF IsAggregateQuery(tq[b].query)
               THEN ~Includes(buildQuery(tq[b]), " ORDER BY ")
               ELSE EndsWith(buildQuery(tq[b]), ExpectedOrderBy(hist[b]))
\* C38: whenever an OFFSET clause is rendered its value is not negative,
\* for limit(n) and page(p) with n in 0..MaxLimit and p in 0..MaxPage.
C38_OffsetNeverNegative ==
    \A b \in Builders :
        tq[b].exists => ~Includes(buildQuery(tq[b]), " OFFSET -")

\* what holds instead: the value is negative exactly for page(0) with a
\* limit of one or more, where it is -n
C38_NegativeOnlyForPageZero ==
    \A b \in Builders :
        tq[b].exists =>
            LET q == tq[b]
            IN  Includes(buildQuery(q), " OFFSET -")
                    <=> (q.limitValue.t = "number" /\ q.limitValue.n >= 1
                            /\ q.pageValue = Num(0))

C38_PageZero ==
    \E b \in Builders :
        /\ tq[b].exists /\ tq[b].limitValue = Num(2) /\ tq[b].pageValue = Num(0)
        /\ buildQuery(tq[b]) = "SELECT * FROM \"users\" LIMIT 2 OFFSET -2"
(***************************************************************************)
(* Properties of the DEFAULT clause of create                              *)
(***************************************************************************)
\* the quoted name and the type of a field, as its definition begins
ColumnHead(field) == "\"" \o ToStr(Prop(field, "name")) \o "\" " \o TypeDefinition(field)

DefaultGiven(field) == Prop(field, "defaultValue").t \notin {"undefined", "null"}

CharacterTypes == {"CHAR", "VARCHAR", "TEXT"}

\* the clause the claim gives a field
ClaimedDefault(field) ==
    IF ~DefaultGiven(field) THEN ""
    ELSE IF ToUpperCase(Prop(field, "type").s) \in CharacterTypes
    THEN " DEFAULT '" \o ToStr(Prop(field, "defaultValue")) \o "'"
    ELSE " DEFAULT " \o ToStr(Prop(field, "defaultValue"))

\* the create calls whose fields all have a name and a type
RenderedCreates == {c \in CreateCalls : calls[c].sql # ""}

\* C39: the statement of create(fields) has a DEFAULT clause for every
\* field whose defaultValue is neither undefined nor null and for no other
\* field, with the value in single quotes for CHAR, VARCHAR and TEXT and as
\* it is for every other type.
C39_DefaultForEveryGivenValue ==
    \A c \in RenderedCreates :
        \A i \in 1..Len(calls[c].input.a) :
            LET field == calls[c].input.a[i]
            IN  /\ Includes(calls[c].sql, ColumnHead(field) \o ClaimedDefault(field))
                /\ ~DefaultGiven(field)
                      => ~Includes(calls[c].sql, ColumnHead(field) \o " DEFAULT")

\* what holds instead: a default of 0, false or '' gives no clause, and the
\* value is quoted for ENUM and SET as well
C39_DefaultForTruthyValues ==
    \A c \in RenderedCreates :
        \A i \in 1..Len(calls[c].input.a) :
            LET field == calls[c].input.a[i]
                defaultValue == Prop(field, "defaultValue")
                type == ToUpperCase(Prop(field, "type").s)
            IN  IF ~Truthy(defaultValue)
                THEN ~Includes(calls[c].sql, ColumnHead(field) \o " DEFAULT")
                ELSE IF type \in CharacterTypes \cup {"ENUM", "SET"}
                THEN Includes(calls[c].sql, ColumnHead(field) \o " DEFAULT '"
                                               \o ToStr(defaultValue) \o "'")
                ELSE Includes(calls[c].sql, ColumnHead(field) \o " DEFAULT "
                                               \o ToStr(defaultValue))

\* the claim's case for values that are truthy, on VARCHAR and INT
C39_GivenDefaultsRendered ==
    \E c \in RenderedCreates :
        /\ calls[c].input = Arr(<<FieldRole, FieldScore>>)
        /\ calls[c].sql = "CREATE TABLE IF NOT EXISTS \"users\" "
                             \o "(\"role\" VARCHAR(20) DEFAULT 'user', \"score\" INT DEFAULT 5)"


====
